---- MODULE Spec2Model ----
(***************************************************************************)
(* OpenCut storage layer: the TTL cache adapter, the remote projects       *)
(* adapter, the storage service that coordinates them, the API route       *)
(* handlers they talk to (with the relational schema behind them) and the  *)
(* media store with its cascade into the timeline.                         *)
(*                                                                         *)
(* JavaScript values are represented as follows.  A nullable value is a    *)
(* sequence of length 0 (null / undefined) or 1.  An array is a sequence.  *)
(* A Date is its epoch time in milliseconds; an ISO-8601 string is the     *)
(* pair <<"iso", ms>>.  A table is a function from the primary keys of its *)
(* rows to the rows (media: a sequence of rows, in heap order).            *)
(***************************************************************************)
EXTENDS Integers, Sequences, FiniteSets, TLC

VARIABLES
    now,              \* Date.now() when the last operation ran
    idbFaults,        \* whether the on-device key-value store may fail in this run
    dbFaults,         \* whether the remote database may fail in this run
    projects,         \* table projects
    scenes,           \* table scenes
    projectSettings,  \* table project_settings
    media,            \* table media
    timelines,        \* table timelines
    mediaCache,       \* IndexedDB store behind StorageService.mediaCache
    timelinesCache,   \* IndexedDB store behind StorageService.timelinesCache
    mediaFiles,       \* useMediaStore: mediaFiles
    tracks,           \* useTimelineStore: tracks
    selectedElements, \* useTimelineStore: selectedElements
    pending,          \* the media-store calls awaiting their request
    written,          \* history: per cache key, the last set not yet invalidated
    last,             \* the operation that ran last, with its outcome
    prev              \* the operation before it, where the pair is a sequence
                      \* of interest (see Sequences), and when it ran

vars == <<now, idbFaults, dbFaults, projects, scenes, projectSettings, media,
          timelines, mediaCache, timelinesCache, mediaFiles, tracks,
          selectedElements, pending, written, last, prev>>

envVars == <<idbFaults, dbFaults>>

dbVars == <<projects, scenes, projectSettings, media, timelines>>
cacheVars == <<mediaCache, timelinesCache>>
storeVars == <<mediaFiles, tracks, selectedElements>>

(***************************************************************************)
(* Bounds of the model and constants of the program.                       *)
(***************************************************************************)
MaxPeriods == 1
MaxElements == 2
MaxTracks == 2
MaxVersion == 2

MediaTTL == 300000
TimelineTTL == 60000
CacheVersion == 1

SceneIds == {"s1", "s2"}
MediaIds == {"m1", "m2"}

\* The instants the clock is observed at: multiples of each TTL and the
\* millisecond after each, so that an entry's age can equal its TTL exactly
\* and exceed it by one.
Instants ==
    { k * ttl + e : k \in 0..MaxPeriods, ttl \in {TimelineTTL, MediaTTL}, e \in 0..1 }

(***************************************************************************)
(* Small helpers.                                                          *)
(***************************************************************************)
Null == <<>>
Some(v) == <<v>>

Range(s) == { s[i] : i \in 1..Len(s) }

RECURSIVE SeqMap(_, _)
SeqMap(Op(_), s) ==
    IF s = <<>> THEN <<>> ELSE <<Op(Head(s))>> \o SeqMap(Op, Tail(s))

Restrict(f, S) == [x \in S |-> f[x]]
Without(f, k) == Restrict(f, DOMAIN f \ {k})
With(f, k, v) == [x \in DOMAIN f \cup {k} |-> IF x = k THEN v ELSE f[x]]

\* Response.ok of the fetch API
ResponseOk(status) == status >= 200 /\ status <= 299

(***************************************************************************)
(* Timeline values (types/timeline): a track holds elements; a media       *)
(* element carries the id of the media it shows, a text element none.      *)
(***************************************************************************)
NoMedia == ""
MediaElement(id, mediaId) == [id |-> id, type |-> "media", mediaId |-> mediaId]
TextElement(id) == [id |-> id, type |-> "text", mediaId |-> NoMedia]
Track(id, elements) == [id |-> id, elements |-> elements]

ElementKinds == {"text"} \cup MediaIds

KindElement(id, kind) ==
    IF kind = "text" THEN TextElement(id) ELSE MediaElement(id, kind)

\* A track whose elements have the given kinds, with ids unique in the track
TrackOfKinds(trackId, kinds) ==
    Track(trackId, [i \in 1..Len(kinds) |-> KindElement(<<trackId, i>>, kinds[i])])

KindSeqs == UNION { [1..n -> ElementKinds] : n \in 0..MaxElements }

\* All track lists of at most MaxTracks tracks of at most MaxElements elements
AllTrackLists ==
    UNION { { [i \in 1..n |-> TrackOfKinds(i, ks[i])] : ks \in [1..n -> KindSeqs] }
            : n \in 0..MaxTracks }

\* The track lists the coordinator is driven with: none, one track, two tracks
OneTrack == <<TrackOfKinds(1, <<"m1">>)>>

TrackLists ==
    { <<>>,
      OneTrack,
      <<TrackOfKinds(1, <<"m1", "text">>), TrackOfKinds(2, <<"m2">>)>> }

(***************************************************************************)
(* The persistent key-value store (IndexedDBAdapter).  A store is a        *)
(* function from the keys it holds to their values.                        *)
(***************************************************************************)
IdbGet(store, key) == IF key \in DOMAIN store THEN Some(store[key]) ELSE Null
IdbSet(store, key, value) == With(store, key, value)
IdbRemove(store, key) == Without(store, key)
IdbClear(store) == Restrict(store, {})
IdbList(store) == DOMAIN store

EmptyStore == [k \in {} |-> 0]

(***************************************************************************)
(* CacheAdapter.  Every operation takes the store, the time Date.now()     *)
(* returns and idbOk, whether the calls it makes to the store succeed, and *)
(* returns the store it leaves with what it returns / whether it threw.    *)
(***************************************************************************)
CacheEntry(data, timestamp, version) ==
    [data |-> data, timestamp |-> timestamp, version |-> version]

IsStale_AtTTL(entry, t, ttl) == t - entry.timestamp >= ttl

IsStale(entry, t, ttl) == t - entry.timestamp > ttl

CacheGet(store, key, t, ttl, idbOk) ==
    IF ~idbOk THEN [val |-> Null, store |-> store]
    ELSE LET entry == IdbGet(store, key) IN
         IF entry = Null THEN [val |-> Null, store |-> store]
         ELSE IF IsStale(entry[1], t, ttl)
              THEN [val |-> Null, store |-> IdbRemove(store, key)]
              ELSE [val |-> Some(entry[1].data), store |-> store]

CacheSet_IfNewer(store, key, data, version, t, idbOk) ==
    IF ~idbOk THEN [threw |-> TRUE, store |-> store]
    ELSE IF key \in DOMAIN store /\ store[key].version > version
         THEN [threw |-> FALSE, store |-> store]
         ELSE [threw |-> FALSE,
               store |-> IdbSet(store, key, CacheEntry(data, t, version))]

CacheSet(store, key, data, version, t, idbOk) ==
    IF ~idbOk THEN [threw |-> TRUE, store |-> store]
    ELSE [threw |-> FALSE,
          store |-> IdbSet(store, key, CacheEntry(data, t, version))]

CacheInvalidate_Keep(store, key, idbOk) == store

CacheInvalidate_All(store, key, idbOk) ==
    IF ~idbOk THEN store ELSE IdbClear(store)

CacheInvalidate(store, key, idbOk) ==
    IF ~idbOk THEN store ELSE IdbRemove(store, key)

CacheClear(store, idbOk) ==
    IF ~idbOk THEN [threw |-> TRUE, store |-> store]
    ELSE [threw |-> FALSE, store |-> IdbClear(store)]

CacheList(store, idbOk) == IF ~idbOk THEN {} ELSE IdbList(store)

CacheGetWithMetadata(store, key, t, ttl, idbOk) ==
    IF ~idbOk THEN [val |-> Null, store |-> store]
    ELSE LET entry == IdbGet(store, key) IN
         IF entry = Null THEN [val |-> Null, store |-> store]
         ELSE IF IsStale(entry[1], t, ttl)
              THEN [val |-> Null, store |-> IdbRemove(store, key)]
              ELSE [val |-> entry, store |-> store]

CacheHas(store, key, t, ttl, idbOk) ==
    LET g == CacheGet(store, key, t, ttl, idbOk) IN
    [val |-> g.val # Null, store |-> g.store]

CacheGetRemainingTTL(store, key, t, ttl, idbOk) ==
    IF ~idbOk THEN -1
    ELSE LET entry == IdbGet(store, key) IN
         IF entry = Null THEN -1
         ELSE LET age == t - entry[1].timestamp
                  remaining == ttl - age
              IN IF remaining > 0 THEN remaining ELSE -1

(***************************************************************************)
(* The relational schema (projects, scenes, project_settings, media,       *)
(* timelines) and the value db of all tables, which the route handlers     *)
(* read and return changed.                                                *)
(***************************************************************************)
DB == [projects |-> projects, scenes |-> scenes,
       projectSettings |-> projectSettings, media |-> media,
       timelines |-> timelines]

SetDB(db) ==
    /\ projects' = db.projects
    /\ scenes' = db.scenes
    /\ projectSettings' = db.projectSettings
    /\ media' = db.media
    /\ timelines' = db.timelines

EmptyDB == [projects |-> EmptyStore, scenes |-> EmptyStore,
            projectSettings |-> EmptyStore, media |-> <<>>,
            timelines |-> EmptyStore]

ProjectRow(name, fps, metadata, version, updatedAt) ==
    [name |-> name, fps |-> fps, metadata |-> metadata, version |-> version,
     updatedAt |-> updatedAt]

SceneRow(projectId, name, isMain, orderIndex) ==
    [projectId |-> projectId, name |-> name, isMain |-> isMain,
     orderIndex |-> orderIndex]

SettingsRow(currentSceneId, bookmarks) ==
    [currentSceneId |-> currentSceneId, bookmarks |-> bookmarks]

MediaRow(id, projectId, name, type, url) ==
    [id |-> id, projectId |-> projectId, name |-> name, type |-> type,
     url |-> url]

TimelineRow(trackList) == [tracks |-> trackList]

\* onDelete: "cascade" of scenes.project_id, project_settings.project_id,
\* media.project_id and timelines.scene_id
ScenesOf(db, projectId) ==
    { s \in DOMAIN db.scenes : db.scenes[s].projectId = projectId }

\* project_settings.current_scene_id references scenes.id with no onDelete
\* action: a scene that a settings row of the projects in `holders` points to
\* cannot be deleted
SceneReferenced(db, sceneId, holders) ==
    \E p \in holders \cap DOMAIN db.projectSettings :
        db.projectSettings[p].currentSceneId = Some(sceneId)

DeleteScenesCascade(db, gone) ==
    [db EXCEPT !.scenes = Restrict(@, DOMAIN @ \ gone),
               !.timelines = Restrict(@, DOMAIN @ \ gone)]

DeleteProjectCascade(db, id) ==
    LET d == DeleteScenesCascade(db, ScenesOf(db, id)) IN
    [d EXCEPT !.projects = Without(@, id),
              !.projectSettings = Restrict(@, DOMAIN @ \ {id}),
              !.media = SelectSeq(@, LAMBDA row : row.projectId # id)]

Response(status, body, db) == [status |-> status, body |-> body, db |-> db]

(***************************************************************************)
(* Media routes.  dbOk is whether the database (and, for the upload, the   *)
(* object store) answers; when it does not, the handler's catch returns    *)
(* 500.                                                                    *)
(***************************************************************************)
generateMediaKey(projectId, mediaId, filename) == <<projectId, mediaId, filename>>

\* app/api/media/route.ts GET: the rows of the project in client format
FormatMedia(row) == [id |-> row.id, name |-> row.name, type |-> row.type,
                     url |-> row.url]

MediaListGET(db, projectId, dbOk) ==
    IF ~dbOk THEN Response(500, <<>>, db)
    ELSE Response(200,
                  SeqMap(FormatMedia,
                         SelectSeq(db.media, LAMBDA row : row.projectId = projectId)),
                  db)

MediaUploadPOST(db, projectId, item, dbOk) ==
    IF ~dbOk THEN Response(500, <<>>, db)
    ELSE IF \/ \E i \in 1..Len(db.media) : db.media[i].id = item.id
            \/ projectId \notin DOMAIN db.projects
         THEN Response(500, <<>>, db)
         ELSE Response(200, <<>>,
                       [db EXCEPT !.media =
                           Append(@, MediaRow(item.id, projectId, item.name, item.type,
                                              generateMediaKey(projectId, item.id,
                                                               item.name)))])

MediaDELETE(db, id, dbOk) ==
    IF ~dbOk THEN Response(500, <<>>, db)
    ELSE IF ~ \E i \in 1..Len(db.media) : db.media[i].id = id
         THEN Response(404, <<>>, db)
         ELSE Response(200, <<>>,
                       [db EXCEPT !.media = SelectSeq(@, LAMBDA row : row.id # id)])

(***************************************************************************)
(* Timeline routes.                                                        *)
(***************************************************************************)
TimelineGET(db, sceneId, dbOk) ==
    IF ~dbOk THEN Response(500, <<>>, db)
    ELSE IF sceneId \notin DOMAIN db.timelines
         THEN Response(404, <<>>, db)
         ELSE Response(200, db.timelines[sceneId].tracks, db)

TimelinePUT(db, sceneId, trackList, dbOk) ==
    IF ~dbOk THEN Response(500, <<>>, db)
    ELSE IF sceneId \in DOMAIN db.timelines
         THEN Response(200, trackList,
                       [db EXCEPT !.timelines[sceneId] = TimelineRow(trackList)])
         ELSE IF sceneId \notin DOMAIN db.scenes
              THEN Response(500, <<>>, db)
              ELSE Response(200, trackList,
                            [db EXCEPT !.timelines =
                                With(@, sceneId, TimelineRow(trackList))])

\* PUT /api/timelines in its two database steps.  The primary key of a row
\* is timeline-<sceneId> and scene_id is unique, so the table is keyed by
\* sceneId; an INSERT on a key the table holds violates both constraints.
\* TimelineSelect: whether the SELECT finds a row for the scene
TimelineSelect(db, sceneId) == sceneId \in DOMAIN db.timelines

\* TimelineWrite: the UPDATE (existing row found) or the INSERT (none found)
TimelineWrite_IgnoreConflict(db, sceneId, trackList, existingTimeline) ==
    IF existingTimeline \/ sceneId \in DOMAIN db.timelines
    THEN Response(200, trackList, db)
    ELSE IF sceneId \notin DOMAIN db.scenes THEN Response(500, <<>>, db)
    ELSE Response(200, trackList,
                  [db EXCEPT !.timelines = With(@, sceneId, TimelineRow(trackList))])

TimelineWrite(db, sceneId, trackList, existingTimeline) ==
    IF existingTimeline
    THEN Response(200, trackList,
                  [db EXCEPT !.timelines =
                      [k \in DOMAIN @ |->
                          IF k = sceneId THEN TimelineRow(trackList) ELSE @[k]]])
    ELSE IF sceneId \in DOMAIN db.timelines \/ sceneId \notin DOMAIN db.scenes
         THEN Response(500, <<>>, db)
         ELSE Response(200, trackList,
                       [db EXCEPT !.timelines =
                           With(@, sceneId, TimelineRow(trackList))])

(***************************************************************************)
(* StorageService: media and timeline operations.  Each operator takes the *)
(* cache store and the tables it works on, the time, and the outcomes of   *)
(* the store calls (idb...Ok) and of the request (dbOk), and returns       *)
(* whether it returned normally (ok), the value it returned (val), the     *)
(* requests it issued (reqs) and the cache store and tables it leaves.     *)
(***************************************************************************)
Req(method, url, status) == [method |-> method, url |-> url, status |-> status]

Out(ok, val, reqs, cache, db) ==
    [ok |-> ok, val |-> val, reqs |-> reqs, cache |-> cache, db |-> db]

\* The media a caller hands to saveMediaFile (what the form data carries)
MediaName(id) == IF id = "m1" THEN "clip.mp4" ELSE "song.mp3"
MediaType(id) == IF id = "m1" THEN "video" ELSE "audio"
MediaItem(id) == [id |-> id, name |-> MediaName(id), type |-> MediaType(id)]

\* metadata -> MediaFile, with the dummy File object
ToMediaFile(metadata) ==
    [id |-> metadata.id, name |-> metadata.name, type |-> metadata.type,
     url |-> metadata.url, file |-> <<"File", metadata.name>>]

loadAllMediaFiles_NoRefill(cache, db, projectId, t, idbGetOk, idbSetOk, dbOk) ==
    LET g == CacheGet(cache, projectId, t, MediaTTL, idbGetOk) IN
    IF g.val # Null
    THEN Out(TRUE, Some(SeqMap(ToMediaFile, g.val[1])), <<>>, g.store, db)
    ELSE LET r == MediaListGET(db, projectId, dbOk)
             req == Req("GET", <<"/api/media", projectId>>, r.status)
         IN IF ~ResponseOk(r.status)
            THEN Out(FALSE, Null, <<req>>, g.store, db)
            ELSE Out(TRUE, Some(SeqMap(ToMediaFile, r.body)), <<req>>, g.store, db)

loadAllMediaFiles_CacheEmpty(cache, db, projectId, t, idbGetOk, idbSetOk, dbOk) ==
    LET g == CacheGet(cache, projectId, t, MediaTTL, idbGetOk) IN
    IF g.val # Null
    THEN Out(TRUE, Some(SeqMap(ToMediaFile, g.val[1])), <<>>, g.store, db)
    ELSE LET r == MediaListGET(db, projectId, dbOk)
             req == Req("GET", <<"/api/media", projectId>>, r.status)
         IN IF ~ResponseOk(r.status)
            THEN Out(FALSE, Null, <<req>>, g.store, db)
            ELSE LET s == CacheSet(g.store, projectId, r.body, CacheVersion, t, idbSetOk)
                 IN IF s.threw
                    THEN Out(FALSE, Null, <<req>>, s.store, db)
                    ELSE Out(TRUE, Some(SeqMap(ToMediaFile, r.body)), <<req>>,
                             s.store, db)

loadAllMediaFiles(cache, db, projectId, t, idbGetOk, idbSetOk, dbOk) ==
    LET g == CacheGet(cache, projectId, t, MediaTTL, idbGetOk) IN
    IF g.val # Null
    THEN Out(TRUE, Some(SeqMap(ToMediaFile, g.val[1])), <<>>, g.store, db)
    ELSE LET r == MediaListGET(db, projectId, dbOk)
             req == Req("GET", <<"/api/media", projectId>>, r.status)
         IN IF ~ResponseOk(r.status)
            THEN Out(FALSE, Null, <<req>>, g.store, db)
            ELSE IF Len(r.body) > 0
                 THEN LET s == CacheSet(g.store, projectId, r.body, CacheVersion, t,
                                        idbSetOk)
                      IN IF s.threw
                         THEN Out(FALSE, Null, <<req>>, s.store, db)
                         ELSE Out(TRUE, Some(SeqMap(ToMediaFile, r.body)), <<req>>,
                                  s.store, db)
                 ELSE Out(TRUE, Some(<<>>), <<req>>, g.store, db)

saveMediaFile_NoInvalidate(cache, db, projectId, mediaItem, idbOk, dbOk) ==
    LET r == MediaUploadPOST(db, projectId, mediaItem, dbOk)
        req == Req("POST", <<"/api/media/upload">>, r.status)
    IN IF ~ResponseOk(r.status)
       THEN Out(FALSE, Null, <<req>>, cache, r.db)
       ELSE Out(TRUE, Null, <<req>>, cache, r.db)

saveMediaFile(cache, db, projectId, mediaItem, idbOk, dbOk) ==
    LET r == MediaUploadPOST(db, projectId, mediaItem, dbOk)
        req == Req("POST", <<"/api/media/upload">>, r.status)
    IN IF ~ResponseOk(r.status)
       THEN Out(FALSE, Null, <<req>>, cache, r.db)
       ELSE Out(TRUE, Null, <<req>>, CacheInvalidate(cache, projectId, idbOk), r.db)

deleteMediaFile_NoInvalidate(cache, db, projectId, id, idbOk, dbOk) ==
    LET r == MediaDELETE(db, id, dbOk)
        req == Req("DELETE", <<"/api/media", id>>, r.status)
    IN IF ~ResponseOk(r.status) /\ r.status # 404
       THEN Out(FALSE, Null, <<req>>, cache, r.db)
       ELSE Out(TRUE, Null, <<req>>, cache, r.db)

deleteMediaFile_Strict(cache, db, projectId, id, idbOk, dbOk) ==
    LET r == MediaDELETE(db, id, dbOk)
        req == Req("DELETE", <<"/api/media", id>>, r.status)
    IN IF ~ResponseOk(r.status)
       THEN Out(FALSE, Null, <<req>>, cache, r.db)
       ELSE Out(TRUE, Null, <<req>>, CacheInvalidate(cache, projectId, idbOk), r.db)

deleteMediaFile(cache, db, projectId, id, idbOk, dbOk) ==
    LET r == MediaDELETE(db, id, dbOk)
        req == Req("DELETE", <<"/api/media", id>>, r.status)
    IN IF ~ResponseOk(r.status) /\ r.status # 404
       THEN Out(FALSE, Null, <<req>>, cache, r.db)
       ELSE Out(TRUE, Null, <<req>>, CacheInvalidate(cache, projectId, idbOk), r.db)

saveTimeline_Invalidate(cache, db, sceneId, trackList, t, idbOk, dbOk) ==
    LET r == TimelinePUT(db, sceneId, trackList, dbOk)
        req == Req("PUT", <<"/api/timelines">>, r.status)
    IN IF ~ResponseOk(r.status)
       THEN Out(FALSE, Null, <<req>>, cache, r.db)
       ELSE Out(TRUE, Null, <<req>>, CacheInvalidate(cache, sceneId, idbOk), r.db)

saveTimeline_CacheAnyway(cache, db, sceneId, trackList, t, idbOk, dbOk) ==
    LET r == TimelinePUT(db, sceneId, trackList, dbOk)
        req == Req("PUT", <<"/api/timelines">>, r.status)
        s == CacheSet(cache, sceneId, trackList, CacheVersion, t, idbOk)
    IN Out(ResponseOk(r.status) /\ ~s.threw, Null, <<req>>, s.store, r.db)

saveTimeline(cache, db, sceneId, trackList, t, idbOk, dbOk) ==
    LET r == TimelinePUT(db, sceneId, trackList, dbOk)
        req == Req("PUT", <<"/api/timelines">>, r.status)
    IN IF ~ResponseOk(r.status)
       THEN Out(FALSE, Null, <<req>>, cache, r.db)
       ELSE LET s == CacheSet(cache, sceneId, trackList, CacheVersion, t, idbOk)
            IN Out(~s.threw, Null, <<req>>, s.store, r.db)

loadTimeline(cache, db, sceneId, t, idbGetOk, idbSetOk, dbOk) ==
    LET g == CacheGet(cache, sceneId, t, TimelineTTL, idbGetOk) IN
    IF g.val # Null
    THEN Out(TRUE, g.val, <<>>, g.store, db)
    ELSE LET r == TimelineGET(db, sceneId, dbOk)
             req == Req("GET", <<"/api/timelines", sceneId>>, r.status)
         IN IF r.status = 404
            THEN Out(TRUE, Null, <<req>>, g.store, db)
            ELSE IF ~ResponseOk(r.status)
                 THEN Out(FALSE, Null, <<req>>, g.store, db)
                 ELSE IF Len(r.body) > 0
                      THEN LET s == CacheSet(g.store, sceneId, r.body, CacheVersion, t,
                                             idbSetOk)
                           IN IF s.threw
                              THEN Out(FALSE, Null, <<req>>, s.store, db)
                              ELSE Out(TRUE, Some(r.body), <<req>>, s.store, db)
                      ELSE Out(TRUE, Some(r.body), <<req>>, g.store, db)

deleteProjectTimeline_Noop(cache, db, sceneId, idbOk) ==
    Out(TRUE, Null, <<>>, cache, db)

deleteProjectTimeline(cache, db, sceneId, idbOk) ==
    Out(TRUE, Null, <<>>, CacheInvalidate(cache, sceneId, idbOk), db)

\* The deleteMediaFile calls deleteProjectMedia starts for the items, each run
\* to its end; failed holds the ids whose DELETE the remote answers with 500.
\* The deletions are of different ids and the invalidation is idempotent, so
\* the order in which they settle does not show in the outcome.
RECURSIVE DeleteEach_StopAtFailure(_, _, _, _, _, _)
DeleteEach_StopAtFailure(cache, db, projectId, items, failed, idbOk) ==
    IF items = <<>> THEN Out(TRUE, Null, <<>>, cache, db)
    ELSE LET d == deleteMediaFile(cache, db, projectId, Head(items).id, idbOk,
                                  Head(items).id \notin failed)
             rest == DeleteEach_StopAtFailure(d.cache, d.db, projectId, Tail(items),
                                              failed, idbOk)
         IN IF ~d.ok THEN d
            ELSE Out(rest.ok, Null, d.reqs \o rest.reqs, rest.cache, rest.db)

RECURSIVE DeleteEach(_, _, _, _, _, _)
DeleteEach(cache, db, projectId, items, failed, idbOk) ==
    IF items = <<>> THEN Out(TRUE, Null, <<>>, cache, db)
    ELSE LET d == deleteMediaFile(cache, db, projectId, Head(items).id, idbOk,
                                  Head(items).id \notin failed)
             rest == DeleteEach(d.cache, d.db, projectId, Tail(items), failed, idbOk)
         IN Out(d.ok /\ rest.ok, Null, d.reqs \o rest.reqs, rest.cache, rest.db)

\* Promise.all rejects when a deletion rejects, and the invalidation after it
\* is then not reached
deleteProjectMedia(cache, db, projectId, t, idbGetOk, idbSetOk, idbOk, dbOk, failed) ==
    LET allMedia == loadAllMediaFiles(cache, db, projectId, t, idbGetOk, idbSetOk, dbOk)
    IN IF ~allMedia.ok THEN allMedia
       ELSE LET each == DeleteEach(allMedia.cache, allMedia.db, projectId,
                                   allMedia.val[1], failed, idbOk)
                reqs == allMedia.reqs \o each.reqs
            IN IF ~each.ok THEN Out(FALSE, Null, reqs, each.cache, each.db)
               ELSE Out(TRUE, Null, reqs,
                        CacheInvalidate(each.cache, projectId, idbOk), each.db)

(***************************************************************************)
(* Project routes (normalized tables, metadata kept beside them).  The     *)
(* body of a request is the SerializedProject: id, name, updatedAt (ISO),  *)
(* scenes (id, name, isMain), currentSceneId, fps, bookmarks.  fps stands  *)
(* for the normalized scalar columns, which are all handled alike;         *)
(* createdAt and the scenes' timestamps are left out.                      *)
(***************************************************************************)
toISOString(ms) == <<"iso", ms>>
NewDate(iso) == iso[2]

\* a || b on numbers and on strings
OrNum(a, b) == IF a # 0 THEN a ELSE b
OrStr(a, b) == IF a # "" THEN a ELSE b

DefaultFps == 30

Metadata(body) ==
    [scenes |-> body.scenes, currentSceneId |-> body.currentSceneId,
     fps |-> body.fps, bookmarks |-> body.bookmarks]

FormatScene(id, row) == [id |-> id, name |-> row.name, isMain |-> row.isMain]

\* .orderBy(scenes.orderIndex): the rows of S by ascending orderIndex
RECURSIVE OrderByIndex(_, _)
OrderByIndex(table, S) ==
    IF S = {} THEN <<>>
    ELSE LET first == CHOOSE x \in S :
                          \A y \in S : table[x].orderIndex <= table[y].orderIndex
         IN <<first>> \o OrderByIndex(table, S \ {first})

ProjectScenes(db, id) ==
    LET ids == OrderByIndex(db.scenes, ScenesOf(db, id))
    IN [i \in 1..Len(ids) |-> FormatScene(ids[i], db.scenes[ids[i]])]

ProjectGET(db, id, dbOk) ==
    IF ~dbOk THEN Response(500, Null, db)
    ELSE IF id \notin DOMAIN db.projects THEN Response(404, Null, db)
    ELSE LET row == db.projects[id]
             projectScenes == ProjectScenes(db, id)
             settings == IdbGet(db.projectSettings, id)
             settingsScene ==
                 IF settings # Null /\ settings[1].currentSceneId # Null
                 THEN settings[1].currentSceneId[1] ELSE ""
         IN Response(200,
                Some([id |-> id,
                      name |-> row.name,
                      updatedAt |-> toISOString(row.updatedAt),
                      fps |-> OrNum(row.fps, OrNum(row.metadata.fps, DefaultFps)),
                      scenes |-> IF Len(projectScenes) > 0 THEN projectScenes
                                 ELSE row.metadata.scenes,
                      currentSceneId |->
                          OrStr(settingsScene, OrStr(row.metadata.currentSceneId, "")),
                      bookmarks |-> IF settings # Null THEN settings[1].bookmarks
                                    ELSE row.metadata.bookmarks]),
                db)

\* The inserts of POST /api/projects run one after the other outside any
\* transaction: a constraint violation in a later one leaves the earlier rows.
ProjectPOST(db, body, dbOk) ==
    IF ~dbOk THEN Response(500, Null, db)
    ELSE IF body.id = "" \/ body.name = "" THEN Response(400, Null, db)
    ELSE IF body.id \in DOMAIN db.projects THEN Response(500, Null, db)
    ELSE LET db1 == [db EXCEPT !.projects =
                        With(@, body.id,
                             ProjectRow(body.name, OrNum(body.fps, DefaultFps),
                                        Metadata(body), 1, NewDate(body.updatedAt)))]
             n == Len(body.scenes)
             newIds == { body.scenes[i].id : i \in 1..n }
             sceneClash == \/ newIds \cap DOMAIN db.scenes # {}
                           \/ Cardinality(newIds) # n
             db2 == [db1 EXCEPT !.scenes =
                        [s \in DOMAIN @ \cup newIds |->
                            IF s \in newIds
                            THEN LET i == CHOOSE j \in 1..n : body.scenes[j].id = s
                                 IN SceneRow(body.id, body.scenes[i].name,
                                             body.scenes[i].isMain, i - 1)
                            ELSE @[s]]]
             current == IF body.currentSceneId # "" THEN Some(body.currentSceneId)
                        ELSE Null
             db3 == [db2 EXCEPT !.projectSettings =
                        With(@, body.id, SettingsRow(current, body.bookmarks))]
         IN IF n > 0 /\ sceneClash THEN Response(500, Null, db1)
            ELSE IF current # Null /\ current[1] \notin DOMAIN db2.scenes
                 THEN Response(500, Null, db2)
                 ELSE Response(200, Some(body), db3)

\* PUT /api/projects/:id writes the projects row (with its metadata) and the
\* settings row; it does not write the scenes table.
ProjectPUT(db, id, body, dbOk) ==
    IF ~dbOk THEN Response(500, Null, db)
    ELSE IF id \notin DOMAIN db.projects THEN Response(404, Null, db)
    ELSE LET existing == db.projects[id]
             db1 == [db EXCEPT !.projects[id] =
                        ProjectRow(body.name, body.fps, Metadata(body),
                                   existing.version + 1, NewDate(body.updatedAt))]
             db2 == [db1 EXCEPT !.projectSettings[id] =
                        SettingsRow(Some(body.currentSceneId), body.bookmarks)]
         IN IF id \notin DOMAIN db.projectSettings THEN Response(200, Some(body), db1)
            ELSE IF body.currentSceneId \notin DOMAIN db.scenes
                 THEN Response(500, Null, db1)
                 ELSE Response(200, Some(body), db2)

\* PUT /api/projects/:id from the row its SELECT returned on: the UPDATE of
\* the row, with the version computed from the row that was read, and of the
\* settings
ProjectPUTWrite(db, id, body, existingProject) ==
    IF id \notin DOMAIN db.projects THEN Response(200, Some(body), db)
    ELSE LET db1 == [db EXCEPT !.projects[id] =
                        ProjectRow(body.name, body.fps, Metadata(body),
                                   existingProject.version + 1,
                                   NewDate(body.updatedAt))]
             db2 == [db1 EXCEPT !.projectSettings[id] =
                        SettingsRow(Some(body.currentSceneId), body.bookmarks)]
         IN IF id \notin DOMAIN db.projectSettings THEN Response(200, Some(body), db1)
            ELSE IF body.currentSceneId \notin DOMAIN db.scenes
                 THEN Response(500, Null, db1)
                 ELSE Response(200, Some(body), db2)

ProjectDELETE(db, id, dbOk) ==
    IF ~dbOk THEN Response(500, Null, db)
    ELSE IF id \notin DOMAIN db.projects THEN Response(404, Null, db)
    ELSE IF \E s \in ScenesOf(db, id) :
                SceneReferenced(db, s, DOMAIN db.projects \ {id})
         THEN Response(500, Null, db)
         ELSE Response(200, Null, DeleteProjectCascade(db, id))

(***************************************************************************)
(* Scene routes.  The body of PUT carries each field or leaves it out.     *)
(***************************************************************************)
ScenePOST(db, body, dbOk) ==
    IF ~dbOk THEN Response(500, Null, db)
    ELSE IF body.id \in DOMAIN db.scenes \/ body.projectId \notin DOMAIN db.projects
         THEN Response(500, Null, db)
         ELSE Response(200, Null,
                       [db EXCEPT !.scenes =
                           With(@, body.id,
                                SceneRow(body.projectId, body.name, body.isMain,
                                         body.orderIndex))])

ScenePUT(db, id, body, dbOk) ==
    IF ~dbOk THEN Response(500, Null, db)
    ELSE IF id \notin DOMAIN db.scenes THEN Response(404, Null, db)
    ELSE LET existing == db.scenes[id] IN
         Response(200, Null,
                  [db EXCEPT !.scenes[id] =
                      SceneRow(existing.projectId,
                               IF body.name # Null THEN body.name[1] ELSE existing.name,
                               IF body.isMain # Null THEN body.isMain[1]
                               ELSE existing.isMain,
                               IF body.orderIndex # Null THEN body.orderIndex[1]
                               ELSE existing.orderIndex)])

SceneDELETE_Unguarded(db, id, dbOk) ==
    IF ~dbOk THEN Response(500, Null, db)
    ELSE IF id \notin DOMAIN db.scenes THEN Response(404, Null, db)
    ELSE IF SceneReferenced(db, id, DOMAIN db.projects) THEN Response(500, Null, db)
    ELSE Response(200, Null, DeleteScenesCascade(db, {id}))

SceneDELETE(db, id, dbOk) ==
    IF ~dbOk THEN Response(500, Null, db)
    ELSE IF id \notin DOMAIN db.scenes THEN Response(404, Null, db)
    ELSE IF db.scenes[id].isMain THEN Response(400, Null, db)
    ELSE IF SceneReferenced(db, id, DOMAIN db.projects) THEN Response(500, Null, db)
    ELSE Response(200, Null, DeleteScenesCascade(db, {id}))

(***************************************************************************)
(* RemoteProjectsAdapter and the project operations of StorageService.     *)
(***************************************************************************)
POut(ok, val, reqs, db) == Out(ok, val, reqs, EmptyStore, db)

adapterGet_Strict(db, id, dbOk) ==
    LET r == ProjectGET(db, id, dbOk)
        req == Req("GET", <<"/api/projects", id>>, r.status)
    IN IF ~ResponseOk(r.status) THEN POut(FALSE, Null, <<req>>, r.db)
       ELSE POut(TRUE, r.body, <<req>>, r.db)

adapterGet(db, id, dbOk) ==
    LET r == ProjectGET(db, id, dbOk)
        req == Req("GET", <<"/api/projects", id>>, r.status)
    IN IF r.status = 404 THEN POut(TRUE, Null, <<req>>, r.db)
       ELSE IF ~ResponseOk(r.status) THEN POut(FALSE, Null, <<req>>, r.db)
       ELSE POut(TRUE, r.body, <<req>>, r.db)

adapterSet_AlwaysCreate(db, id, value, getOk, writeOk) ==
    LET existingProject == adapterGet(db, id, getOk) IN
    IF ~existingProject.ok THEN existingProject
    ELSE LET r == ProjectPOST(db, value, writeOk)
             req == Req("POST", <<"/api/projects">>, r.status)
         IN POut(ResponseOk(r.status), Null, Append(existingProject.reqs, req), r.db)

adapterSet(db, id, value, getOk, writeOk) ==
    LET existingProject == adapterGet(db, id, getOk) IN
    IF ~existingProject.ok THEN existingProject
    ELSE IF existingProject.val # Null
         THEN LET r == ProjectPUT(db, id, value, writeOk)
                  req == Req("PUT", <<"/api/projects", id>>, r.status)
              IN POut(ResponseOk(r.status), Null,
                      Append(existingProject.reqs, req), r.db)
         ELSE LET r == ProjectPOST(db, value, writeOk)
                  req == Req("POST", <<"/api/projects">>, r.status)
              IN POut(ResponseOk(r.status), Null,
                      Append(existingProject.reqs, req), r.db)

\* RemoteProjectsAdapter.set from the answer of its GET on: the PUT or the
\* POST, chosen by what the GET returned
adapterSetWrite_Recheck(db, id, value, existingProject, reqs, writeOk) ==
    LET r == IF id \in DOMAIN db.projects THEN ProjectPUT(db, id, value, writeOk)
             ELSE ProjectPOST(db, value, writeOk)
        req == IF id \in DOMAIN db.projects
               THEN Req("PUT", <<"/api/projects", id>>, r.status)
               ELSE Req("POST", <<"/api/projects">>, r.status)
    IN POut(ResponseOk(r.status), Null, Append(reqs, req), r.db)

adapterSetWrite(db, id, value, existingProject, reqs, writeOk) ==
    IF existingProject # Null
    THEN LET r == ProjectPUT(db, id, value, writeOk)
             req == Req("PUT", <<"/api/projects", id>>, r.status)
         IN POut(ResponseOk(r.status), Null, Append(reqs, req), r.db)
    ELSE LET r == ProjectPOST(db, value, writeOk)
             req == Req("POST", <<"/api/projects">>, r.status)
         IN POut(ResponseOk(r.status), Null, Append(reqs, req), r.db)

adapterRemove(db, id, dbOk) ==
    LET r == ProjectDELETE(db, id, dbOk)
        req == Req("DELETE", <<"/api/projects", id>>, r.status)
    IN POut(ResponseOk(r.status) \/ r.status = 404, Null, <<req>>, r.db)

SerializeScene(scene) == [id |-> scene.id, name |-> scene.name, isMain |-> scene.isMain]

SerializeProject(project) ==
    [id |-> project.id, name |-> project.name,
     updatedAt |-> toISOString(project.updatedAt),
     scenes |-> SeqMap(SerializeScene, project.scenes),
     currentSceneId |-> project.currentSceneId,
     fps |-> project.fps, bookmarks |-> project.bookmarks]

DeserializeProject(serializedProject) ==
    [id |-> serializedProject.id, name |-> serializedProject.name,
     updatedAt |-> NewDate(serializedProject.updatedAt),
     scenes |-> SeqMap(SerializeScene, serializedProject.scenes),
     currentSceneId |-> OrStr(serializedProject.currentSceneId, ""),
     fps |-> serializedProject.fps, bookmarks |-> serializedProject.bookmarks]

saveProject(db, project, getOk, writeOk) ==
    adapterSet(db, project.id, SerializeProject(project), getOk, writeOk)

loadProject_NoRequest(db, id, dbOk) ==
    LET g == adapterGet(db, id, TRUE) IN
    IF g.val = Null THEN POut(TRUE, Null, <<>>, g.db)
    ELSE POut(TRUE, Some(DeserializeProject(g.val[1])), <<>>, g.db)

loadProject(db, id, dbOk) ==
    LET g == adapterGet(db, id, dbOk) IN
    IF ~g.ok \/ g.val = Null THEN g
    ELSE POut(TRUE, Some(DeserializeProject(g.val[1])), g.reqs, g.db)

deleteProject(db, id, dbOk) == adapterRemove(db, id, dbOk)

\* .orderBy(desc(projects.updatedAt)): the ids of S by descending updatedAt
RECURSIVE OrderByUpdatedDesc(_, _)
OrderByUpdatedDesc(table, S) ==
    IF S = {} THEN <<>>
    ELSE LET first == CHOOSE x \in S :
                          \A y \in S : table[x].updatedAt >= table[y].updatedAt
         IN <<first>> \o OrderByUpdatedDesc(table, S \ {first})

\* GET /api/projects: every project, its scenes, currentSceneId and bookmarks
\* taken from the metadata column
FormatListedProject(id, row) ==
    [id |-> id,
     name |-> row.name,
     updatedAt |-> toISOString(row.updatedAt),
     fps |-> OrNum(row.fps, OrNum(row.metadata.fps, DefaultFps)),
     scenes |-> row.metadata.scenes,
     currentSceneId |-> OrStr(row.metadata.currentSceneId, ""),
     bookmarks |-> row.metadata.bookmarks]

ProjectListGET(db, dbOk) ==
    IF ~dbOk THEN Response(500, <<>>, db)
    ELSE LET ids == OrderByUpdatedDesc(db.projects, DOMAIN db.projects)
         IN Response(200,
                     [i \in 1..Len(ids) |->
                         FormatListedProject(ids[i], db.projects[ids[i]])],
                     db)

adapterLoadAll(db, dbOk) ==
    LET r == ProjectListGET(db, dbOk)
        req == Req("GET", <<"/api/projects">>, r.status)
    IN IF ~ResponseOk(r.status) THEN POut(FALSE, Null, <<req>>, r.db)
       ELSE POut(TRUE, Some(r.body), <<req>>, r.db)

adapterList(db, dbOk) ==
    LET r == ProjectListGET(db, dbOk)
        req == Req("GET", <<"/api/projects">>, r.status)
    IN IF ~ResponseOk(r.status) THEN POut(FALSE, Null, <<req>>, r.db)
       ELSE POut(TRUE, Some([i \in 1..Len(r.body) |-> r.body[i].id]), <<req>>, r.db)

\* The removals of clear, served in the order ids; the removal of an id in
\* failed is answered 500
RECURSIVE RemoveEach(_, _, _)
RemoveEach(db, ids, failed) ==
    IF ids = <<>> THEN POut(TRUE, Null, <<>>, db)
    ELSE LET d == adapterRemove(db, Head(ids), Head(ids) \notin failed)
             rest == RemoveEach(d.db, Tail(ids), failed)
         IN POut(d.ok /\ rest.ok, Null, d.reqs \o rest.reqs, rest.db)

\* Promise.all(ids.map(remove)) issues the removals together: the remote
\* serves them in an order of its own, here the order of the ids in served.
\* val: the ids list() returned
adapterClear_StopAtFailure(db, listOk, served, failed) ==
    LET l == adapterList(db, listOk) IN
    IF ~l.ok THEN l
    ELSE LET ids == SelectSeq(served, LAMBDA id : id \in Range(l.val[1]))
             k == IF \E i \in 1..Len(ids) : ids[i] \in failed
                  THEN CHOOSE i \in 1..Len(ids) :
                           /\ ids[i] \in failed
                           /\ \A j \in 1..(i - 1) : ids[j] \notin failed
                  ELSE Len(ids)
             each == RemoveEach(l.db, SubSeq(ids, 1, k), failed)
         IN POut(each.ok, l.val, l.reqs \o each.reqs, each.db)

adapterClear(db, listOk, served, failed) ==
    LET l == adapterList(db, listOk) IN
    IF ~l.ok THEN l
    ELSE LET ids == SelectSeq(served, LAMBDA id : id \in Range(l.val[1]))
             each == RemoveEach(l.db, ids, failed)
         IN POut(each.ok, l.val, l.reqs \o each.reqs, each.db)

\* projects.sort((a, b) => b.updatedAt - a.updatedAt), which is stable
RECURSIVE SortByUpdatedDesc(_)
SortByUpdatedDesc(list) ==
    IF list = <<>> THEN <<>>
    ELSE LET h == Head(list)
             rest == SortByUpdatedDesc(Tail(list))
             k == Cardinality({ i \in 1..Len(rest) : rest[i].updatedAt > h.updatedAt })
         IN SubSeq(rest, 1, k) \o <<h>> \o SubSeq(rest, k + 1, Len(rest))

loadAllProjects(db, dbOk) ==
    LET l == adapterLoadAll(db, dbOk) IN
    IF ~l.ok THEN l
    ELSE POut(TRUE, Some(SortByUpdatedDesc(SeqMap(DeserializeProject, l.val[1]))),
              l.reqs, l.db)

\* clearAllData: the projects, then the media cache, then the timeline
\* cache; a step that raises ends the call
ClearOut(ok, a, mediaStore, timelinesStore) ==
    [ok |-> ok, val |-> a.val, reqs |-> a.reqs, db |-> a.db,
     mediaCache |-> mediaStore, timelinesCache |-> timelinesStore]

clearAllData_ProjectsOnly(mediaStore, timelinesStore, db, listOk, served, failed, idbMediaOk, idbTimelinesOk) ==
    LET a == adapterClear(db, listOk, served, failed) IN
    ClearOut(a.ok, a, mediaStore, timelinesStore)

clearAllData(mediaStore, timelinesStore, db, listOk, served, failed, idbMediaOk, idbTimelinesOk) ==
    LET a == adapterClear(db, listOk, served, failed) IN
    IF ~a.ok THEN ClearOut(FALSE, a, mediaStore, timelinesStore)
    ELSE LET m == CacheClear(mediaStore, idbMediaOk) IN
         IF m.threw THEN ClearOut(FALSE, a, m.store, timelinesStore)
         ELSE LET tl == CacheClear(timelinesStore, idbTimelinesOk) IN
              ClearOut(~tl.threw, a, m.store, tl.store)

(***************************************************************************)
(* Timeline store (selection and unified deletion) and media store.        *)
(***************************************************************************)
Selection(trackId, elementId) == [trackId |-> trackId, elementId |-> elementId]

setSelectedElements(elements) == elements

\* deleteSelected: every selected element leaves its track
deleteSelected(trackList, selected) ==
    [i \in 1..Len(trackList) |->
        [trackList[i] EXCEPT !.elements =
            SelectSeq(@, LAMBDA el :
                ~ \E j \in 1..Len(selected) :
                    selected[j] = Selection(trackList[i].id, el.id))]]

TrackMatches(track, id) ==
    LET hits == SelectSeq(track.elements,
                          LAMBDA el : el.type = "media" /\ el.mediaId = id)
    IN [j \in 1..Len(hits) |-> Selection(track.id, hits[j].id)]

RECURSIVE ElementsToRemove_FirstHit(_, _)
ElementsToRemove_FirstHit(trackList, id) ==
    IF trackList = <<>> THEN <<>>
    ELSE IF TrackMatches(Head(trackList), id) # <<>>
         THEN <<Head(TrackMatches(Head(trackList), id))>>
         ELSE ElementsToRemove_FirstHit(Tail(trackList), id)

\* the scan of removeMediaFile over every element of every track
RECURSIVE ElementsToRemove(_, _)
ElementsToRemove(trackList, id) ==
    IF trackList = <<>> THEN <<>>
    ELSE TrackMatches(Head(trackList), id) \o ElementsToRemove(Tail(trackList), id)

\* The MediaFile addMediaFile builds: the caller's file with a fresh id
NewMediaFile(id) ==
    [id |-> id, name |-> MediaName(id), type |-> MediaType(id),
     url |-> <<"blob", id>>, file |-> <<"File", MediaName(id)>>]

(***************************************************************************)
(* Bookkeeping: the operation that ran last (at time now), its key and     *)
(* argument, whether it returned normally, what it returned and the        *)
(* requests it issued.                                                     *)
(***************************************************************************)
NoOp == [op |-> "none", key |-> "", arg |-> Null, ok |-> TRUE, val |-> Null,
         reqs |-> <<>>]

OpRec(op, key, arg, o) ==
    [op |-> op, key |-> key, arg |-> arg, ok |-> o.ok, val |-> o.val,
     reqs |-> o.reqs]

\* The pairs of consecutive operations on one key that prev keeps the first of:
\* a load after a write or a load, a delete after a delete, a set after a
\* set, an invalidation after a save
OpPairs ==
    { <<"saveProject", "loadProject">>,
      <<"deleteProject", "deleteProject">>,
      <<"deleteMediaFile", "deleteMediaFile">>,
      <<"saveMediaFile", "loadAllMediaFiles">>,
      <<"deleteMediaFile", "loadAllMediaFiles">>,
      <<"loadAllMediaFiles", "loadAllMediaFiles">>,
      <<"saveTimeline", "loadTimeline">>,
      <<"loadTimeline", "loadTimeline">>,
      <<"cache.get", "cache.get">>,
      <<"cache.set", "cache.set">>,
      <<"loadProject", "loadProject">>,
      <<"saveTimeline", "deleteProjectTimeline">>,
      <<"adapter.set", "adapter.set">>,
      <<"removeMediaFile", "loadProjectMedia">>,
      <<"PUT /api/projects/:id", "PUT /api/projects/:id">> }

NoPrev == [rec |-> NoOp, at |-> 0]

Record(rec) ==
    /\ last' = rec
    /\ prev' = IF /\ <<last.op, rec.op>> \in OpPairs
                  /\ last.key = rec.key
                  /\ rec.op = "deleteMediaFile" => last.arg = rec.arg
               THEN [rec |-> last, at |-> now]
               ELSE NoPrev

IdbOutcomes == IF idbFaults THEN BOOLEAN ELSE {TRUE}
DbOutcomes == IF dbFaults THEN BOOLEAN ELSE {TRUE}

\* The times an operation can be called at: time does not run backwards
Times == { t \in Instants : t >= now }

(***************************************************************************)
(* Actions: a CacheAdapter used directly, at time t.  part names the       *)
(* adapter: the media cache (keys: project ids) or the timelines cache     *)
(* (keys: scene ids).                                                      *)
(***************************************************************************)
Parts == {"media", "timelines"}
PartStore(part) == IF part = "media" THEN mediaCache ELSE timelinesCache
PartTTL(part) == IF part = "media" THEN MediaTTL ELSE TimelineTTL
PartKeys(part) == IF part = "media" THEN {"p1"} ELSE {"s1"}
PartData(part) ==
    IF part = "media"
    THEN { <<FormatMedia(MediaRow(m, "p1", MediaName(m), MediaType(m),
                                  generateMediaKey("p1", m, MediaName(m))))>>
           : m \in MediaIds }
    ELSE TrackLists
Versions == {1, 2}

SetPart(part, store) ==
    IF part = "media"
    THEN mediaCache' = store /\ UNCHANGED timelinesCache
    ELSE timelinesCache' = store /\ UNCHANGED mediaCache

CacheOut(val, store) == Out(TRUE, val, <<>>, store, DB)

CallCacheGet(t, part, key) ==
    \E idbOk \in IdbOutcomes :
        LET g == CacheGet(PartStore(part), key, t, PartTTL(part), idbOk) IN
        /\ now' = t
        /\ SetPart(part, g.store)
        /\ Record(OpRec("cache.get", <<part, key>>, Null, CacheOut(g.val, g.store)))
        /\ UNCHANGED <<envVars, pending, dbVars, storeVars, written>>

CallCacheSet(t, part, key, data, version) ==
    \E idbOk \in IdbOutcomes :
        LET s == CacheSet(PartStore(part), key, data, version, t, idbOk) IN
        /\ now' = t
        /\ SetPart(part, s.store)
        /\ written' = IF s.threw THEN written
                      ELSE With(written, <<part, key>>, CacheEntry(data, t, version))
        /\ Record(OpRec("cache.set", <<part, key>>, <<data, version>>,
                         Out(~s.threw, Null, <<>>, s.store, DB)))
        /\ UNCHANGED <<envVars, pending, dbVars, storeVars>>

\* arg: whether the removal in the store succeeded
CallCacheInvalidate(t, part, key) ==
    \E idbOk \in IdbOutcomes :
        LET store == CacheInvalidate(PartStore(part), key, idbOk) IN
        /\ now' = t
        /\ SetPart(part, store)
        /\ written' = IF idbOk THEN Without(written, <<part, key>>) ELSE written
        /\ Record(OpRec("cache.invalidate", <<part, key>>, Some(idbOk),
                         CacheOut(Null, store)))
        /\ UNCHANGED <<envVars, pending, dbVars, storeVars>>

CallCacheClear(t, part) ==
    \E idbOk \in IdbOutcomes :
        LET c == CacheClear(PartStore(part), idbOk) IN
        /\ now' = t
        /\ SetPart(part, c.store)
        /\ written' = IF c.threw THEN written
                      ELSE Restrict(written, { k \in DOMAIN written : k[1] # part })
        /\ Record(OpRec("cache.clear", <<part, "">>, Null,
                         Out(~c.threw, Null, <<>>, c.store, DB)))
        /\ UNCHANGED <<envVars, pending, dbVars, storeVars>>

CallCacheHas(t, part, key) ==
    \E idbOk \in IdbOutcomes :
        LET h == CacheHas(PartStore(part), key, t, PartTTL(part), idbOk) IN
        /\ now' = t
        /\ SetPart(part, h.store)
        /\ Record(OpRec("cache.has", <<part, key>>, Null, CacheOut(Some(h.val), h.store)))
        /\ UNCHANGED <<envVars, pending, dbVars, storeVars, written>>

CallCacheGetWithMetadata(t, part, key) ==
    \E idbOk \in IdbOutcomes :
        LET g == CacheGetWithMetadata(PartStore(part), key, t, PartTTL(part), idbOk) IN
        /\ now' = t
        /\ SetPart(part, g.store)
        /\ Record(OpRec("cache.getWithMetadata", <<part, key>>, Null,
                         CacheOut(g.val, g.store)))
        /\ UNCHANGED <<envVars, pending, dbVars, storeVars, written>>

CallCacheGetRemainingTTL(t, part, key) ==
    \E idbOk \in IdbOutcomes :
        LET r == CacheGetRemainingTTL(PartStore(part), key, t, PartTTL(part), idbOk) IN
        /\ now' = t
        /\ Record(OpRec("cache.getRemainingTTL", <<part, key>>, Null,
                         CacheOut(Some(r), PartStore(part))))
        /\ UNCHANGED <<envVars, pending, dbVars, cacheVars, storeVars, written>>

(***************************************************************************)
(* Actions: CacheAdapter.get in its two store calls, for callers that do   *)
(* not await it.  BeginCacheGet runs the call up to the answer of          *)
(* idbAdapter.get and the staleness check; a call that found a stale entry *)
(* is suspended at its await of idbAdapter.remove, which EndCacheGet runs. *)
(***************************************************************************)
\* A get that found a stale entry, before its removal
PendingGet(part, key, entry) ==
    [op |-> "cache.get", client |-> <<part, key>>, key |-> <<part, key>>,
     entry |-> entry]

BeginCacheGet(t, part, key) ==
    LET entry == IdbGet(PartStore(part), key) IN
    /\ \A c \in pending : c.client # <<part, key>>
    /\ now' = t
    /\ IF entry # Null /\ IsStale(entry[1], t, PartTTL(part))
       THEN /\ pending' = pending \cup {PendingGet(part, key, entry[1])}
            /\ UNCHANGED <<last, prev>>
       ELSE /\ UNCHANGED pending
            /\ Record(OpRec("cache.get", <<part, key>>, Null,
                             CacheOut(IF entry = Null THEN Null
                                      ELSE Some(entry[1].data), PartStore(part))))
    /\ UNCHANGED <<envVars, dbVars, cacheVars, storeVars, written>>

\* arg: the stale entry the call had read
EndCacheGet(t, part, key) ==
    \E c \in pending :
        LET store == IdbRemove(PartStore(part), key) IN
        /\ c.op = "cache.get" /\ c.client = <<part, key>>
        /\ now' = t
        /\ SetPart(part, store)
        /\ pending' = pending \ {c}
        /\ Record(OpRec("cache.get", <<part, key>>, Some(c.entry),
                         CacheOut(Null, store)))
        /\ UNCHANGED <<envVars, dbVars, storeVars, written>>

(***************************************************************************)
(* Actions: StorageService called directly, at time t.                     *)
(***************************************************************************)
CallLoadAllMediaFiles(t, projectId) ==
    \E idbGetOk \in IdbOutcomes, idbSetOk \in IdbOutcomes, dbOk \in DbOutcomes :
        LET o == loadAllMediaFiles(mediaCache, DB, projectId, t, idbGetOk, idbSetOk,
                                   dbOk) IN
        /\ now' = t
        /\ mediaCache' = o.cache
        /\ SetDB(o.db)
        /\ Record(OpRec("loadAllMediaFiles", projectId, Null, o))
        /\ UNCHANGED <<envVars, pending, timelinesCache, storeVars, written>>

CallSaveMediaFile(t, projectId, id) ==
    \E idbOk \in IdbOutcomes, dbOk \in DbOutcomes :
        LET o == saveMediaFile(mediaCache, DB, projectId, MediaItem(id), idbOk, dbOk) IN
        /\ now' = t
        /\ mediaCache' = o.cache
        /\ SetDB(o.db)
        /\ Record(OpRec("saveMediaFile", projectId, Some(id), o))
        /\ UNCHANGED <<envVars, pending, timelinesCache, storeVars, written>>

CallDeleteMediaFile(t, projectId, id) ==
    \E idbOk \in IdbOutcomes, dbOk \in DbOutcomes :
        LET o == deleteMediaFile(mediaCache, DB, projectId, id, idbOk, dbOk) IN
        /\ now' = t
        /\ mediaCache' = o.cache
        /\ SetDB(o.db)
        /\ Record(OpRec("deleteMediaFile", projectId, Some(id), o))
        /\ UNCHANGED <<envVars, pending, timelinesCache, storeVars, written>>

CallSaveTimeline(t, sceneId, trackList) ==
    \E idbOk \in IdbOutcomes, dbOk \in DbOutcomes :
        LET o == saveTimeline(timelinesCache, DB, sceneId, trackList, t, idbOk, dbOk) IN
        /\ now' = t
        /\ timelinesCache' = o.cache
        /\ SetDB(o.db)
        /\ Record(OpRec("saveTimeline", sceneId, Some(trackList), o))
        /\ UNCHANGED <<envVars, pending, mediaCache, storeVars, written>>

CallLoadTimeline(t, sceneId) ==
    \E idbGetOk \in IdbOutcomes, idbSetOk \in IdbOutcomes, dbOk \in DbOutcomes :
        LET o == loadTimeline(timelinesCache, DB, sceneId, t, idbGetOk, idbSetOk,
                              dbOk) IN
        /\ now' = t
        /\ timelinesCache' = o.cache
        /\ SetDB(o.db)
        /\ Record(OpRec("loadTimeline", sceneId, Null, o))
        /\ UNCHANGED <<envVars, pending, mediaCache, storeVars, written>>

CallDeleteProjectTimeline(t, sceneId) ==
    \E idbOk \in IdbOutcomes :
        LET o == deleteProjectTimeline(timelinesCache, DB, sceneId, idbOk) IN
        /\ now' = t
        /\ timelinesCache' = o.cache
        /\ Record(OpRec("deleteProjectTimeline", sceneId, Null, o))
        /\ UNCHANGED <<envVars, pending, dbVars, mediaCache, storeVars, written>>

\* The ids of the media rows of a project on the remote
RemoteMediaOf(db, projectId) ==
    { db.media[i].id : i \in { j \in 1..Len(db.media) :
                                  db.media[j].projectId = projectId } }

\* arg: the deletions that fail, the ids of the loaded list in its order, the
\* ids the remote held before the call
CallDeleteProjectMedia(t, projectId) ==
    \E idbGetOk \in IdbOutcomes, idbSetOk \in IdbOutcomes, idbOk \in IdbOutcomes,
       dbOk \in DbOutcomes,
       failed \in IF dbFaults THEN SUBSET MediaIds ELSE {{}} :
        LET o == deleteProjectMedia(mediaCache, DB, projectId, t, idbGetOk, idbSetOk,
                                    idbOk, dbOk, failed)
            allMedia == loadAllMediaFiles(mediaCache, DB, projectId, t, idbGetOk,
                                          idbSetOk, dbOk)
            listed == IF allMedia.ok
                      THEN [i \in 1..Len(allMedia.val[1]) |-> allMedia.val[1][i].id]
                      ELSE <<>>
        IN
        /\ now' = t
        /\ mediaCache' = o.cache
        /\ SetDB(o.db)
        /\ Record(OpRec("deleteProjectMedia", projectId,
                         <<failed, listed, RemoteMediaOf(DB, projectId)>>, o))
        /\ UNCHANGED <<envVars, pending, timelinesCache, storeVars, written>>

CallLoadAllProjects(t) ==
    \E dbOk \in DbOutcomes :
        LET o == loadAllProjects(DB, dbOk) IN
        /\ now' = t
        /\ SetDB(o.db)
        /\ Record(OpRec("loadAllProjects", "", Null, o))
        /\ UNCHANGED <<envVars, pending, cacheVars, storeVars, written>>

CallDeleteProject(t, id) ==
    \E dbOk \in DbOutcomes :
        LET o == deleteProject(DB, id, dbOk) IN
        /\ now' = t
        /\ SetDB(o.db)
        /\ Record(OpRec("deleteProject", id, Null, o))
        /\ UNCHANGED <<envVars, pending, cacheVars, storeVars, written>>

\* The row's version counter is kept within MaxVersion
CallSaveProject(t, project) ==
    \E getOk \in DbOutcomes, writeOk \in DbOutcomes :
        LET o == saveProject(DB, project, getOk, writeOk) IN
        /\ project.id \in DOMAIN projects => projects[project.id].version < MaxVersion
        /\ now' = t
        /\ SetDB(o.db)
        /\ Record(OpRec("saveProject", project.id, Some(project), o))
        /\ UNCHANGED <<envVars, pending, cacheVars, storeVars, written>>

CallLoadProject(t, id) ==
    \E dbOk \in DbOutcomes :
        LET o == loadProject(DB, id, dbOk) IN
        /\ now' = t
        /\ SetDB(o.db)
        /\ Record(OpRec("loadProject", id, Null, o))
        /\ UNCHANGED <<envVars, pending, cacheVars, storeVars, written>>

\* The orders in which the remote may serve the removals of one clear
ServedOrders == { <<"p1", "p2">>, <<"p2", "p1">> }

\* The removals of one clear that may be answered 500
FailedRemovals == IF dbFaults THEN SUBSET {"p1", "p2"} ELSE {{}}

CallAdapterClear(t) ==
    \E listOk \in DbOutcomes, served \in ServedOrders, failed \in FailedRemovals :
        LET o == adapterClear(DB, listOk, served, failed) IN
        /\ now' = t
        /\ SetDB(o.db)
        /\ Record(OpRec("adapter.clear", "", Null, o))
        /\ UNCHANGED <<envVars, pending, cacheVars, storeVars, written>>

\* arg: the keys the media cache and the timeline cache held at the call
CallClearAllData(t) ==
    \E listOk \in DbOutcomes, served \in ServedOrders, failed \in FailedRemovals,
       idbMediaOk \in IdbOutcomes, idbTimelinesOk \in IdbOutcomes :
        LET o == clearAllData(mediaCache, timelinesCache, DB, listOk, served, failed,
                              idbMediaOk, idbTimelinesOk) IN
        /\ now' = t
        /\ SetDB(o.db)
        /\ mediaCache' = o.mediaCache
        /\ timelinesCache' = o.timelinesCache
        /\ written' = Restrict(written,
                           { k \in DOMAIN written :
                               /\ k[1] = "media" => o.mediaCache # EmptyStore
                               /\ k[1] = "timelines" => o.timelinesCache # EmptyStore })
        /\ Record(OpRec("clearAllData", "",
                         <<DOMAIN mediaCache, DOMAIN timelinesCache>>, o))
        /\ UNCHANGED <<envVars, pending, storeVars>>

(***************************************************************************)
(* Actions: the scene routes, requested directly.                          *)
(***************************************************************************)
HttpOut(r, req) == POut(ResponseOk(r.status), Null, <<req>>, r.db)

RequestScenePOST(t, body) ==
    \E dbOk \in DbOutcomes :
        LET r == ScenePOST(DB, body, dbOk) IN
        /\ now' = t
        /\ SetDB(r.db)
        /\ Record(OpRec("POST /api/scenes", body.id, Some(body),
                         HttpOut(r, Req("POST", <<"/api/scenes">>, r.status))))
        /\ UNCHANGED <<envVars, pending, cacheVars, storeVars, written>>

RequestScenePUT(t, id, body) ==
    \E dbOk \in DbOutcomes :
        LET r == ScenePUT(DB, id, body, dbOk) IN
        /\ now' = t
        /\ SetDB(r.db)
        /\ Record(OpRec("PUT /api/scenes", id, Some(body),
                         HttpOut(r, Req("PUT", <<"/api/scenes", id>>, r.status))))
        /\ UNCHANGED <<envVars, pending, cacheVars, storeVars, written>>

\* arg: the tables as they were before the request
RequestSceneDELETE(t, id) ==
    \E dbOk \in DbOutcomes :
        LET r == SceneDELETE(DB, id, dbOk) IN
        /\ now' = t
        /\ SetDB(r.db)
        /\ Record(OpRec("DELETE /api/scenes", id, Some(DB),
                         HttpOut(r, Req("DELETE", <<"/api/scenes", id>>, r.status))))
        /\ UNCHANGED <<envVars, pending, cacheVars, storeVars, written>>

(***************************************************************************)
(* Actions: StorageService.loadAllMediaFiles split where it awaits the     *)
(* write of the cache, for callers that do not await it.                   *)
(* BeginLoadAllMediaFiles runs the call through the cache miss and the     *)
(* answer of GET /api/media; a call that was answered a non-empty list is  *)
(* suspended before mediaCache.set, which EndLoadAllMediaFiles runs.       *)
(***************************************************************************)
\* A load holding the list it fetched, before it writes the cache
PendingLoad(client, projectId, body, reqs) ==
    [op |-> "loadAllMediaFiles", client |-> client, key |-> projectId,
     body |-> body, reqs |-> reqs]

BeginLoadAllMediaFiles(t, client, projectId) ==
    \E idbGetOk \in IdbOutcomes, dbOk \in DbOutcomes :
        LET g == CacheGet(mediaCache, projectId, t, MediaTTL, idbGetOk)
            r == MediaListGET(DB, projectId, dbOk)
            whole == loadAllMediaFiles(mediaCache, DB, projectId, t, idbGetOk, TRUE,
                                       dbOk)
        IN
        /\ \A c \in pending : c.client # client
        /\ now' = t
        /\ IF g.val = Null /\ ResponseOk(r.status) /\ Len(r.body) > 0
           THEN /\ mediaCache' = g.store
                /\ pending' = pending \cup
                       {PendingLoad(client, projectId, r.body,
                                    <<Req("GET", <<"/api/media", projectId>>, r.status)>>)}
                /\ UNCHANGED <<last, prev>>
           ELSE /\ mediaCache' = whole.cache
                /\ UNCHANGED pending
                /\ Record(OpRec("loadAllMediaFiles", projectId, Null, whole))
        /\ UNCHANGED <<envVars, dbVars, timelinesCache, storeVars, written>>

\* arg: the list the call had fetched
EndLoadAllMediaFiles(t, client) ==
    \E c \in pending, idbSetOk \in IdbOutcomes :
        LET s == CacheSet(mediaCache, c.key, c.body, CacheVersion, t, idbSetOk) IN
        /\ c.op = "loadAllMediaFiles" /\ c.client = client
        /\ now' = t
        /\ mediaCache' = s.store
        /\ pending' = pending \ {c}
        /\ Record(OpRec("loadAllMediaFiles", c.key, Some(c.body),
                         IF s.threw THEN Out(FALSE, Null, c.reqs, s.store, DB)
                         ELSE Out(TRUE, Some(SeqMap(ToMediaFile, c.body)), c.reqs,
                                  s.store, DB)))
        /\ UNCHANGED <<envVars, dbVars, timelinesCache, storeVars, written>>

(***************************************************************************)
(* Actions: StorageService.saveTimeline split where it awaits the write of *)
(* the cache.  BeginSaveTimeline runs the call through the answer of       *)
(* PUT /api/timelines; a call whose PUT was accepted is suspended before   *)
(* timelinesCache.set, which EndSaveTimeline runs.                         *)
(***************************************************************************)
\* A save whose PUT was accepted, before it writes the cache
PendingSave(client, sceneId, trackList, reqs) ==
    [op |-> "saveTimeline", client |-> client, key |-> sceneId,
     tracks |-> trackList, reqs |-> reqs]

BeginSaveTimeline(t, client, sceneId, trackList) ==
    \E dbOk \in DbOutcomes :
        LET r == TimelinePUT(DB, sceneId, trackList, dbOk)
            req == Req("PUT", <<"/api/timelines">>, r.status)
        IN
        /\ \A c \in pending : c.client # client
        /\ now' = t
        /\ SetDB(r.db)
        /\ IF ResponseOk(r.status)
           THEN /\ pending' = pending \cup
                       {PendingSave(client, sceneId, trackList, <<req>>)}
                /\ UNCHANGED <<last, prev>>
           ELSE /\ UNCHANGED pending
                /\ Record(OpRec("saveTimeline", sceneId, Some(trackList),
                                 Out(FALSE, Null, <<req>>, timelinesCache, r.db)))
        /\ UNCHANGED <<envVars, cacheVars, storeVars, written>>

EndSaveTimeline(t, client) ==
    \E c \in pending, idbOk \in IdbOutcomes :
        LET s == CacheSet(timelinesCache, c.key, c.tracks, CacheVersion, t, idbOk) IN
        /\ c.op = "saveTimeline" /\ c.client = client
        /\ now' = t
        /\ timelinesCache' = s.store
        /\ pending' = pending \ {c}
        /\ Record(OpRec("saveTimeline", c.key, Some(c.tracks),
                         Out(~s.threw, Null, c.reqs, s.store, DB)))
        /\ UNCHANGED <<envVars, dbVars, mediaCache, storeVars, written>>

(***************************************************************************)
(* Actions: PUT /api/projects/:id, one request of each client at a time.   *)
(* BeginProjectPUT is the handler up to the answer of its SELECT of the    *)
(* project, EndProjectPUT the rest of it.                                  *)
(***************************************************************************)
\* A request between its SELECT and its UPDATE
PendingUpdate(client, id, body, existingProject) ==
    [op |-> "PUT /api/projects/:id", client |-> client, key |-> id,
     body |-> body, existingProject |-> existingProject]

\* arg: the client and the version of the row the SELECT returned
BeginProjectPUT(t, client, id, body) ==
    /\ \A c \in pending : c.client # client
    /\ id \in DOMAIN projects => projects[id].version < MaxVersion
    /\ now' = t
    /\ IF id \in DOMAIN projects
       THEN /\ pending' = pending \cup {PendingUpdate(client, id, body, projects[id])}
            /\ UNCHANGED <<last, prev>>
       ELSE /\ UNCHANGED pending
            /\ Record(OpRec("PUT /api/projects/:id", id, <<client, 0>>,
                             HttpOut(Response(404, Null, DB),
                                     Req("PUT", <<"/api/projects", id>>, 404))))
    /\ UNCHANGED <<envVars, dbVars, cacheVars, storeVars, written>>

EndProjectPUT(t, client) ==
    \E c \in pending :
        LET r == ProjectPUTWrite(DB, c.key, c.body, c.existingProject) IN
        /\ c.op = "PUT /api/projects/:id" /\ c.client = client
        /\ now' = t
        /\ SetDB(r.db)
        /\ pending' = pending \ {c}
        /\ Record(OpRec("PUT /api/projects/:id", c.key,
                         <<c.client, c.existingProject.version>>,
                         HttpOut(r, Req("PUT", <<"/api/projects", c.key>>, r.status))))
        /\ UNCHANGED <<envVars, cacheVars, storeVars, written>>

(***************************************************************************)
(* Actions: RemoteProjectsAdapter.set in its two requests, for callers     *)
(* that do not await each other.  BeginSet runs the call up to the answer  *)
(* of its GET, EndSet from there on.                                       *)
(***************************************************************************)
\* A set between the answer of its GET and its write
PendingSet(client, id, value, existingProject, reqs) ==
    [op |-> "adapter.set", client |-> client, key |-> id, value |-> value,
     existingProject |-> existingProject, reqs |-> reqs]

\* arg: the caller, the value and what the GET returned
BeginSet(t, client, project) ==
    \E getOk \in DbOutcomes :
        LET g == adapterGet(DB, project.id, getOk) IN
        /\ \A c \in pending : c.client # client
        /\ project.id \in DOMAIN projects => projects[project.id].version < MaxVersion
        /\ now' = t
        /\ SetDB(g.db)
        /\ IF g.ok
           THEN /\ pending' = pending \cup
                       {PendingSet(client, project.id, SerializeProject(project),
                                   g.val, g.reqs)}
                /\ UNCHANGED <<last, prev>>
           ELSE /\ UNCHANGED pending
                /\ Record(OpRec("adapter.set", project.id,
                                 <<client, SerializeProject(project), g.val>>, g))
        /\ UNCHANGED <<envVars, cacheVars, storeVars, written>>

EndSet(t, client) ==
    \E c \in pending, writeOk \in DbOutcomes :
        LET o == adapterSetWrite(DB, c.key, c.value, c.existingProject, c.reqs,
                                 writeOk) IN
        /\ c.client = client
        /\ now' = t
        /\ SetDB(o.db)
        /\ pending' = pending \ {c}
        /\ Record(OpRec("adapter.set", c.key,
                         <<c.client, c.value, c.existingProject>>, o))
        /\ UNCHANGED <<envVars, cacheVars, storeVars, written>>

(***************************************************************************)
(* Actions: PUT /api/timelines, one request of each client at a time, in   *)
(* the two database steps of the handler.                                  *)
(***************************************************************************)
Clients == {"a", "b"}

\* A request between its SELECT and its write
PendingUpsert(client, sceneId, trackList, existingTimeline) ==
    [op |-> "PUT /api/timelines", client |-> client, key |-> sceneId,
     tracks |-> trackList, existingTimeline |-> existingTimeline]

BeginTimelinePUT(t, client, sceneId, trackList) ==
    /\ \A c \in pending : c.client # client
    /\ now' = t
    /\ pending' = pending \cup
           {PendingUpsert(client, sceneId, trackList, TimelineSelect(DB, sceneId))}
    /\ UNCHANGED <<envVars, dbVars, cacheVars, storeVars, written, last, prev>>

\* arg: the client, the tracks of the body, what the SELECT found and
\* whether the table held a row for the scene when the write ran
EndTimelinePUT(t, client) ==
    \E c \in pending :
        LET r == TimelineWrite(DB, c.key, c.tracks, c.existingTimeline) IN
        /\ c.client = client
        /\ now' = t
        /\ SetDB(r.db)
        /\ pending' = pending \ {c}
        /\ Record(OpRec("PUT /api/timelines", c.key,
                         <<c.client, c.tracks, c.existingTimeline,
                           TimelineSelect(DB, c.key)>>,
                         HttpOut(r, Req("PUT", <<"/api/timelines">>, r.status))))
        /\ UNCHANGED <<envVars, cacheVars, storeVars, written>>

(***************************************************************************)
(* Actions: the media store.                                               *)
(***************************************************************************)
\* generateUUID() returns an id no media carries yet
FreshMediaIds ==
    { m \in MediaIds :
        /\ \A i \in 1..Len(mediaFiles) : mediaFiles[i].id # m
        /\ \A i \in 1..Len(media) : media[i].id # m }

CallAddMediaFile(t, projectId) ==
    \E id \in FreshMediaIds, idbOk \in IdbOutcomes, dbOk \in DbOutcomes :
        LET newItem == NewMediaFile(id)
            added == Append(mediaFiles, newItem)
            o == saveMediaFile(mediaCache, DB, projectId, MediaItem(id), idbOk, dbOk)
        IN
        /\ now' = t
        /\ mediaFiles' = IF o.ok THEN added
                         ELSE SelectSeq(added, LAMBDA m : m.id # newItem.id)
        /\ mediaCache' = o.cache
        /\ SetDB(o.db)
        /\ Record(OpRec("addMediaFile", projectId, Some(id), [o EXCEPT !.ok = TRUE]))
        /\ UNCHANGED <<envVars, pending, timelinesCache, tracks, selectedElements, written>>

\* arg: the id and the tracks as they were before the call;
\* val: the elements the cascade selected
CallRemoveMediaFile(t, projectId, id) ==
    \E idbOk \in IdbOutcomes, dbOk \in DbOutcomes :
        LET elementsToRemove == ElementsToRemove(tracks, id)
            o == deleteMediaFile(mediaCache, DB, projectId, id, idbOk, dbOk)
        IN
        /\ now' = t
        /\ mediaFiles' = SelectSeq(mediaFiles, LAMBDA m : m.id # id)
        /\ IF Len(elementsToRemove) > 0
           THEN /\ tracks' = deleteSelected(tracks, setSelectedElements(elementsToRemove))
                /\ selectedElements' = <<>>
           ELSE UNCHANGED <<tracks, selectedElements>>
        /\ mediaCache' = o.cache
        /\ SetDB(o.db)
        /\ Record(OpRec("removeMediaFile", projectId, <<id, tracks>>,
                         [o EXCEPT !.ok = TRUE, !.val = Some(elementsToRemove)]))
        /\ UNCHANGED <<envVars, pending, timelinesCache, written>>

(***************************************************************************)
(* The media store, a call in two steps: Begin runs the call up to its      *)
(* await, where the request is issued; End runs it from the response on.    *)
(***************************************************************************)
\* A call awaiting its request: the list and the tracks it found are kept
\* for the record of the call
PendingCall(op, key, id, files, trackList, elements) ==
    [op |-> op, key |-> key, id |-> id, mediaFiles |-> files,
     tracks |-> trackList, elements |-> elements]

\* addMediaFile, lines 149-151: the item joins the list
addLocal(files, newItem) == Append(files, newItem)

\* addMediaFile, lines 159-161: the item leaves the list
addRollback_Keep(files, id) == files

addRollback(files, id) == SelectSeq(files, LAMBDA m : m.id # id)

\* removeMediaFile, lines 171-193, with the request still to be issued:
\* nothing has been touched
removeLocal_Deferred(files, trackList, selected, id) ==
    [mediaFiles |-> files, tracks |-> trackList, selectedElements |-> selected,
     elements |-> ElementsToRemove(trackList, id)]

\* removeMediaFile, lines 171-193: the file leaves the list and the elements
\* that use it leave the tracks
removeLocal(files, trackList, selected, id) ==
    LET elementsToRemove == ElementsToRemove(trackList, id) IN
    [mediaFiles |-> SelectSeq(files, LAMBDA m : m.id # id),
     tracks |-> IF Len(elementsToRemove) > 0
                THEN deleteSelected(trackList, setSelectedElements(elementsToRemove))
                ELSE trackList,
     selectedElements |-> IF Len(elementsToRemove) > 0 THEN <<>> ELSE selected,
     elements |-> elementsToRemove]

BeginAddMediaFile(t, projectId) ==
    \E id \in FreshMediaIds :
        /\ now' = t
        /\ mediaFiles' = addLocal(mediaFiles, NewMediaFile(id))
        /\ pending' = pending \cup
               {PendingCall("addMediaFile", projectId, id, mediaFiles, tracks, <<>>)}
        /\ UNCHANGED <<envVars, dbVars, cacheVars, tracks, selectedElements,
                       written, last, prev>>

\* arg: the id and the list as it was before the call
EndAddMediaFile(t) ==
    \E c \in pending, idbOk \in IdbOutcomes, dbOk \in DbOutcomes :
        LET o == saveMediaFile(mediaCache, DB, c.key, MediaItem(c.id), idbOk, dbOk) IN
        /\ c.op = "addMediaFile"
        /\ now' = t
        /\ mediaFiles' = IF o.ok THEN mediaFiles ELSE addRollback(mediaFiles, c.id)
        /\ mediaCache' = o.cache
        /\ SetDB(o.db)
        /\ pending' = pending \ {c}
        /\ Record(OpRec("addMediaFile", c.key, <<c.id, c.mediaFiles>>,
                         [o EXCEPT !.ok = TRUE]))
        /\ UNCHANGED <<envVars, timelinesCache, tracks, selectedElements, written>>

BeginRemoveMediaFile(t, projectId, id) ==
    LET local == removeLocal(mediaFiles, tracks, selectedElements, id) IN
    /\ now' = t
    /\ mediaFiles' = local.mediaFiles
    /\ tracks' = local.tracks
    /\ selectedElements' = local.selectedElements
    /\ pending' = pending \cup
           {PendingCall("removeMediaFile", projectId, id, mediaFiles, tracks,
                        local.elements)}
    /\ UNCHANGED <<envVars, dbVars, cacheVars, written, last, prev>>

\* arg: the id, the tracks and the list as they were before the call;
\* val: the elements the cascade selected
EndRemoveMediaFile(t) ==
    \E c \in pending, idbOk \in IdbOutcomes, dbOk \in DbOutcomes :
        LET o == deleteMediaFile(mediaCache, DB, c.key, c.id, idbOk, dbOk) IN
        /\ c.op = "removeMediaFile"
        /\ now' = t
        /\ mediaCache' = o.cache
        /\ SetDB(o.db)
        /\ pending' = pending \ {c}
        /\ Record(OpRec("removeMediaFile", c.key, <<c.id, c.tracks, c.mediaFiles>>,
                         [o EXCEPT !.ok = TRUE, !.val = Some(c.elements)]))
        /\ UNCHANGED <<envVars, timelinesCache, storeVars, written>>

CallLoadProjectMedia(t, projectId) ==
    \E idbGetOk \in IdbOutcomes, idbSetOk \in IdbOutcomes, dbOk \in DbOutcomes :
        LET o == loadAllMediaFiles(mediaCache, DB, projectId, t, idbGetOk, idbSetOk,
                                   dbOk) IN
        /\ now' = t
        /\ mediaFiles' = IF o.ok THEN o.val[1] ELSE mediaFiles
        /\ mediaCache' = o.cache
        /\ SetDB(o.db)
        /\ Record(OpRec("loadProjectMedia", projectId, Null, [o EXCEPT !.ok = TRUE]))
        /\ UNCHANGED <<envVars, pending, timelinesCache, tracks, selectedElements, written>>

(***************************************************************************)
(* Inputs and initial states.                                              *)
(***************************************************************************)
Scene(id, name, isMain) == [id |-> id, name |-> name, isMain |-> isMain]

Project(id, name, sceneList, currentSceneId, fps, updatedAt) ==
    [id |-> id, name |-> name, updatedAt |-> updatedAt, scenes |-> sceneList,
     currentSceneId |-> currentSceneId, fps |-> fps, bookmarks |-> <<>>]

\* The project the storage and media-store runs start with: p1, created by
\* POST /api/projects with a main scene s1 and a second scene s2
StartProject ==
    Project("p1", "Film", <<Scene("s1", "Main scene", TRUE), Scene("s2", "Outro", FALSE)>>,
            "s1", DefaultFps, 0)

RenamedProject == [StartProject EXCEPT !.name = "Film 2"]

\* A second project, p2 with its main scene s3, and the same project with
\* its current scene set to s1, a scene of p1
SecondProject ==
    Project("p2", "Trailer", <<Scene("s3", "Main scene", TRUE)>>, "s3", DefaultFps, 1)

BorrowingProject == [SecondProject EXCEPT !.currentSceneId = "s1"]

StartDB == ProjectPOST(EmptyDB, SerializeProject(StartProject), TRUE).db

\* The projects saveProject is called with
SceneLists ==
    { <<Scene("s1", "Main scene", TRUE)>>,
      <<Scene("s1", "Intro", TRUE)>>,
      <<Scene("s1", "Main scene", TRUE), Scene("s2", "Outro", FALSE)>> }

ProjectInputs ==
    { Project("p1", name, sceneList, sceneList[i].id, DefaultFps, 0) :
        name \in {"Film", "Film 2"}, sceneList \in SceneLists, i \in 1..1 }

SceneInputs ==
    { [id |-> id, projectId |-> "p1", name |-> "Extra", isMain |-> isMain,
       orderIndex |-> 1] : id \in {"s2"}, isMain \in BOOLEAN }

SceneUpdates ==
    { [name |-> Some("Renamed"), isMain |-> Null, orderIndex |-> Null],
      [name |-> Null, isMain |-> Some(FALSE), orderIndex |-> Null],
      [name |-> Null, isMain |-> Some(TRUE), orderIndex |-> Some(0)] }

InitWith(db, trackLists, idbF, dbF) ==
    /\ now = 0
    /\ idbFaults = idbF
    /\ dbFaults = dbF
    /\ projects = db.projects
    /\ scenes = db.scenes
    /\ projectSettings = db.projectSettings
    /\ media = db.media
    /\ timelines = db.timelines
    /\ mediaCache = EmptyStore
    /\ timelinesCache = EmptyStore
    /\ mediaFiles = <<>>
    /\ tracks \in trackLists
    /\ selectedElements = <<>>
    /\ pending = {}
    /\ written = EmptyStore
    /\ last = NoOp
    /\ prev = NoPrev

(***************************************************************************)
(* Spec: the storage service, one operation at a time, on project p1 and   *)
(* its scene s1.  The on-device store works and the remote answers; it     *)
(* answers 500 where a constraint of the schema is violated.               *)
(***************************************************************************)
Init == InitWith(StartDB, {<<>>}, FALSE, FALSE)

Next ==
    \E t \in Times :
        \/ CallLoadAllMediaFiles(t, "p1")
        \/ \E id \in MediaIds : CallSaveMediaFile(t, "p1", id)
        \/ \E id \in MediaIds : CallDeleteMediaFile(t, "p1", id)
        \/ \E trackList \in TrackLists : CallSaveTimeline(t, "s1", trackList)
        \/ CallLoadTimeline(t, "s1")
        \/ CallDeleteProjectTimeline(t, "s1")
        \/ CallDeleteProject(t, "p1")

Spec == Init /\ [][Next]_vars

(***************************************************************************)
(* SpecCache: a CacheAdapter driven directly.                              *)
(***************************************************************************)
InitCache == InitWith(StartDB, {<<>>}, FALSE, FALSE)

NextCache ==
    \E t \in Times, part \in Parts :
        \/ \E key \in PartKeys(part) : CallCacheGet(t, part, key)
        \/ \E key \in PartKeys(part), data \in PartData(part), version \in Versions :
               CallCacheSet(t, part, key, data, version)
        \/ \E key \in PartKeys(part) : CallCacheInvalidate(t, part, key)
        \/ CallCacheClear(t, part)
        \/ \E key \in PartKeys(part) : CallCacheHas(t, part, key)
        \/ \E key \in PartKeys(part) : CallCacheGetWithMetadata(t, part, key)
        \/ \E key \in PartKeys(part) : CallCacheGetRemainingTTL(t, part, key)

SpecCache == InitCache /\ [][NextCache]_vars

(***************************************************************************)
(* SpecProjects: projects and scenes against the remote API, starting from *)
(* an empty database.                                                      *)
(***************************************************************************)
InitProjects == InitWith(EmptyDB, {<<>>}, FALSE, FALSE)

NextProjects ==
    \E t \in {now} :
        \/ \E project \in ProjectInputs : CallSaveProject(t, project)
        \/ CallLoadProject(t, "p1")
        \/ CallDeleteProject(t, "p1")
        \/ \E body \in SceneInputs : RequestScenePOST(t, body)
        \/ \E id \in SceneIds, body \in SceneUpdates : RequestScenePUT(t, id, body)
        \/ \E id \in SceneIds : RequestSceneDELETE(t, id)
        \/ \E sceneId \in SceneIds : CallSaveTimeline(t, sceneId, OneTrack)

SpecProjects == InitProjects /\ [][NextProjects]_vars

(***************************************************************************)
(* SpecFaults: the storage service, one operation at a time, where every   *)
(* request may fail (500) while the on-device store works.                 *)
(* SpecCacheFaults: the cached operations, where every call to the         *)
(* on-device store may fail while the remote answers.                      *)
(* The clock stands still in both, so that no entry turns stale.           *)
(***************************************************************************)
InitFaults == InitWith(StartDB, {<<>>}, FALSE, TRUE)

InitCacheFaults == InitWith(StartDB, {<<>>}, TRUE, FALSE)

NextFaults ==
    \E t \in {now} :
        \/ CallLoadAllMediaFiles(t, "p1")
        \/ \E id \in MediaIds : CallSaveMediaFile(t, "p1", id)
        \/ \E id \in MediaIds : CallDeleteMediaFile(t, "p1", id)
        \/ CallDeleteProjectMedia(t, "p1")
        \/ \E trackList \in TrackLists : CallSaveTimeline(t, "s1", trackList)
        \/ CallLoadTimeline(t, "s1")
        \/ CallDeleteProjectTimeline(t, "s1")
        \/ \E project \in {StartProject, RenamedProject} : CallSaveProject(t, project)
        \/ CallLoadProject(t, "p1")
        \/ CallLoadAllProjects(t)
        \/ CallDeleteProject(t, "p1")

SpecFaults == InitFaults /\ [][NextFaults]_vars

NextCacheFaults ==
    \E t \in {now} :
        \/ CallLoadAllMediaFiles(t, "p1")
        \/ \E id \in MediaIds : CallSaveMediaFile(t, "p1", id)
        \/ \E id \in MediaIds : CallDeleteMediaFile(t, "p1", id)
        \/ CallDeleteProjectMedia(t, "p1")
        \/ \E trackList \in TrackLists : CallSaveTimeline(t, "s1", trackList)
        \/ CallLoadTimeline(t, "s1")
        \/ CallDeleteProjectTimeline(t, "s1")
        \/ \E part \in Parts : \E key \in PartKeys(part) :
               CallCacheInvalidate(t, part, key)

SpecCacheFaults == InitCacheFaults /\ [][NextCacheFaults]_vars

(***************************************************************************)
(* SpecClear: clearAllData and RemoteProjectsAdapter.clear on a remote     *)
(* with up to two projects and caches that hold entries; every request and *)
(* every call to the on-device store may fail.                             *)
(***************************************************************************)
InitClear == InitWith(StartDB, {<<>>}, TRUE, TRUE)

NextClear ==
    \E t \in {now} :
        \/ \E project \in {StartProject, SecondProject, BorrowingProject} :
               CallSaveProject(t, project)
        \/ CallSaveMediaFile(t, "p1", "m1")
        \/ CallLoadAllMediaFiles(t, "p1")
        \/ CallSaveTimeline(t, "s1", OneTrack)
        \/ CallAdapterClear(t)
        \/ CallClearAllData(t)

SpecClear == InitClear /\ [][NextClear]_vars

(***************************************************************************)
(* SpecCascade: the media store and the timelines of the scenes of p1: the *)
(* tracks the editor holds are saved for a scene, loaded, and the media    *)
(* they use are added and removed.  The remote answers every request.      *)
(***************************************************************************)
InitCascade == InitWith(StartDB, TrackLists \ {<<>>}, FALSE, FALSE)

NextCascade ==
    \E t \in {now} :
        \/ CallAddMediaFile(t, "p1")
        \/ \E id \in MediaIds : CallRemoveMediaFile(t, "p1", id)
        \/ CallLoadProjectMedia(t, "p1")
        \/ \E sceneId \in SceneIds : CallSaveTimeline(t, sceneId, tracks)
        \/ \E sceneId \in SceneIds : CallLoadTimeline(t, sceneId)

SpecCascade == InitCascade /\ [][NextCascade]_vars

(***************************************************************************)
(* SpecFrame: the coordinator and the two CacheAdapters on two             *)
(* projects (media cache keys p1, p2; p2 holds m2) and two scenes          *)
(* (timeline cache keys s1, s2), with time.                                *)
(***************************************************************************)
TwoProjectsDB ==
    MediaUploadPOST(ProjectPOST(StartDB, SerializeProject(SecondProject), TRUE).db,
                    "p2", MediaItem("m2"), TRUE).db

InitFrame == InitWith(TwoProjectsDB, {<<>>}, FALSE, FALSE)

FrameKeys(part) == IF part = "media" THEN {"p1", "p2"} ELSE {"s1", "s2"}
FrameTimes == { t \in Times : t \in {0, TimelineTTL + 1} }

NextFrame ==
    \E t \in FrameTimes :
        \/ \E part \in Parts : \E key \in FrameKeys(part) :
               \/ CallCacheGet(t, part, key)
               \/ CallCacheInvalidate(t, part, key)
        \/ CallCacheSet(t, "timelines", "s2", OneTrack, 1)
        \/ \E projectId \in FrameKeys("media") : CallLoadAllMediaFiles(t, projectId)
        \/ CallSaveMediaFile(t, "p1", "m1")
        \/ CallDeleteMediaFile(t, "p1", "m1")
        \/ CallSaveTimeline(t, "s1", OneTrack)
        \/ CallLoadTimeline(t, "s1")
        \/ CallDeleteProjectTimeline(t, "s1")

SpecFrame == InitFrame /\ [][NextFrame]_vars

(***************************************************************************)
(* SpecMediaOverlap: loads of the media list of p1 that are not awaited,   *)
(* with saves and deletes of its media, with time.                         *)
(***************************************************************************)
NextMediaOverlap ==
    \E t \in Times, client \in Clients :
        \/ BeginLoadAllMediaFiles(t, client, "p1")
        \/ EndLoadAllMediaFiles(t, client)
        \/ \E id \in MediaIds : CallSaveMediaFile(t, "p1", id)
        \/ \E id \in MediaIds : CallDeleteMediaFile(t, "p1", id)

SpecMediaOverlap == Init /\ [][NextMediaOverlap]_vars

(***************************************************************************)
(* SpecTimelineOverlap: saves of the timeline of s1 that are not awaited,  *)
(* with loads of it, with time.                                            *)
(***************************************************************************)
NextTimelineOverlap ==
    \E t \in Times, client \in Clients :
        \/ \E trackList \in TrackLists : BeginSaveTimeline(t, client, "s1", trackList)
        \/ EndSaveTimeline(t, client)
        \/ CallLoadTimeline(t, "s1")

SpecTimelineOverlap == Init /\ [][NextTimelineOverlap]_vars

(***************************************************************************)
(* SpecUpdates: two clients update project p1 with PUT /api/projects/:id,  *)
(* each request in its two steps; the project is created and deleted      *)
(* while no update is in flight.                                           *)
(***************************************************************************)
NextUpdates ==
    \E t \in {now}, client \in Clients :
        \/ \E project \in ProjectInputs :
               BeginProjectPUT(t, client, project.id, SerializeProject(project))
        \/ EndProjectPUT(t, client)
        \/ \E project \in ProjectInputs :
               /\ pending = {}
               /\ project.id \notin DOMAIN projects
               /\ CallSaveProject(t, project)
        \/ pending = {} /\ CallDeleteProject(t, "p1")

SpecUpdates == InitProjects /\ [][NextUpdates]_vars

(***************************************************************************)
(* SpecLoads: project creates and updates, scene creates and deletes, and  *)
(* the two ways of loading a project.                                      *)
(***************************************************************************)
NextLoads ==
    \E t \in {now} :
        \/ \E project \in ProjectInputs : CallSaveProject(t, project)
        \/ \E body \in SceneInputs : RequestScenePOST(t, body)
        \/ \E id \in SceneIds : RequestSceneDELETE(t, id)
        \/ CallLoadProject(t, "p1")
        \/ CallLoadAllProjects(t)

SpecLoads == InitProjects /\ [][NextLoads]_vars

(***************************************************************************)
(* SpecEvict: gets and sets of the timelines CacheAdapter that are not     *)
(* awaited, with time.                                                     *)
(***************************************************************************)
NextEvict ==
    \E t \in Times, part \in {"timelines"} : \E key \in PartKeys(part) :
        \/ BeginCacheGet(t, part, key)
        \/ EndCacheGet(t, part, key)
        \/ \E data \in PartData(part), version \in Versions :
               CallCacheSet(t, part, key, data, version)

SpecEvict == InitCache /\ [][NextEvict]_vars

(***************************************************************************)
(* SpecSets: two callers save projects through RemoteProjectsAdapter.set   *)
(* without awaiting each other, from an empty remote.                      *)
(***************************************************************************)
NextSets ==
    \E t \in {now}, client \in Clients :
        \/ \E project \in ProjectInputs : BeginSet(t, client, project)
        \/ EndSet(t, client)
        \/ pending = {} /\ CallDeleteProject(t, "p1")

SpecSets == InitProjects /\ [][NextSets]_vars

(***************************************************************************)
(* SpecUpserts: two clients upsert the timelines of the scenes of p1, the  *)
(* requests interleaved between their SELECT and their write.              *)
(***************************************************************************)
NextUpserts ==
    \E t \in {now}, client \in Clients :
        \/ \E sceneId \in SceneIds, trackList \in TrackLists :
               BeginTimelinePUT(t, client, sceneId, trackList)
        \/ EndTimelinePUT(t, client)

SpecUpserts == Init /\ [][NextUpserts]_vars

(***************************************************************************)
(* SpecStore: the media store over the storage service, with the timeline  *)
(* the editor holds in memory.                                             *)
(***************************************************************************)
InitStore == InitWith(StartDB, AllTrackLists, FALSE, TRUE)

NextStore ==
    \E t \in {now} :
        \/ CallAddMediaFile(t, "p1")
        \/ \E id \in MediaIds : CallRemoveMediaFile(t, "p1", id)
        \/ CallLoadProjectMedia(t, "p1")

SpecStore == InitStore /\ [][NextStore]_vars

(***************************************************************************)
(* SpecStoreSteps: the media store with each call in its two steps, one    *)
(* call at a time: a call begins when no other call awaits its request.    *)
(***************************************************************************)
NextStoreSteps ==
    \E t \in {now} :
        \/ pending = {} /\ BeginAddMediaFile(t, "p1")
        \/ EndAddMediaFile(t)
        \/ \E id \in MediaIds : pending = {} /\ BeginRemoveMediaFile(t, "p1", id)
        \/ EndRemoveMediaFile(t)
        \/ pending = {} /\ CallLoadProjectMedia(t, "p1")

SpecStoreSteps == InitStore /\ [][NextStoreSteps]_vars

(***************************************************************************)
(* SpecStoreOverlap: the media store with calls that are not awaited: a    *)
(* loadProjectMedia, or a call for another file, may run while an          *)
(* addMediaFile or a removeMediaFile awaits its request.  One add is in    *)
(* flight at a time (every add draws a new id), and a file is not removed  *)
(* while a call for it is in flight.                                       *)
(***************************************************************************)
InitStoreOverlap == InitWith(StartDB, {OneTrack}, FALSE, TRUE)

NextStoreOverlap ==
    \E t \in {now} :
        \/ (\A c \in pending : c.op # "addMediaFile") /\ BeginAddMediaFile(t, "p1")
        \/ EndAddMediaFile(t)
        \/ \E id \in MediaIds :
               /\ \A c \in pending : c.id # id
               /\ id \in { mediaFiles[i].id : i \in 1..Len(mediaFiles) }
               /\ BeginRemoveMediaFile(t, "p1", id)
        \/ EndRemoveMediaFile(t)
        \/ CallLoadProjectMedia(t, "p1")

SpecStoreOverlap == InitStoreOverlap /\ [][NextStoreOverlap]_vars

(***************************************************************************)
(* Properties.                                                             *)
(***************************************************************************)
\* Whether the last two operations were op1 and then op2 on the same key
Then(op1, op2) == prev.rec.op = op1 /\ last.op = op2

\* The ids of a list of media files
IdsOf(files) == { files[i].id : i \in 1..Len(files) }

\* C1 (cache freshness): a get of a key at a time t with
\* t - write_time <= ttl returns exactly the value last written by set; a get
\* with t - write_time > ttl returns null and leaves the store without an
\* entry for the key.  written holds, per adapter and key, the entry of the
\* last set that no invalidate or clear has removed since.
C1_CacheFreshness ==
    (last.op = "cache.get" /\ last.key \in DOMAIN written) =>
        LET part == last.key[1]
            key == last.key[2]
            w == written[last.key]
            age == now - w.timestamp
        IN /\ age <= PartTTL(part) => last.val = Some(w.data)
           /\ age > PartTTL(part) =>
                  last.val = Null /\ key \notin DOMAIN PartStore(part)

\* A get at age exactly ttl returned the written value, and the next get of
\* the key, one millisecond later, returned null and evicted the entry
C1_Witness ==
    /\ Then("cache.get", "cache.get")
    /\ last.key \in DOMAIN written
    /\ prev.at - written[last.key].timestamp = PartTTL(last.key[1])
    /\ prev.rec.val = Some(written[last.key].data)
    /\ now = prev.at + 1
    /\ last.val = Null
    /\ last.key[2] \notin DOMAIN PartStore(last.key[1])

\* C2 (cache-aside refill): when loadAllMediaFiles (resp. loadTimeline)
\* missed the cache and the remote returned a non-empty list, the next
\* loadAllMediaFiles (resp. loadTimeline) of the same key within the TTL
\* returns the same value and issues no request.
C2_CacheAsideRefill ==
    /\ ( /\ Then("loadAllMediaFiles", "loadAllMediaFiles")
         /\ prev.rec.ok /\ prev.rec.reqs # <<>> /\ prev.rec.val # Some(<<>>)
         /\ now - prev.at <= MediaTTL )
       => (last.ok /\ last.val = prev.rec.val /\ last.reqs = <<>>)
    /\ ( /\ Then("loadTimeline", "loadTimeline")
         /\ prev.rec.ok /\ prev.rec.reqs # <<>>
         /\ prev.rec.val # Null /\ prev.rec.val # Some(<<>>)
         /\ now - prev.at <= TimelineTTL )
       => (last.ok /\ last.val = prev.rec.val /\ last.reqs = <<>>)

\* A load fetched two media from the remote, and the load of the same project
\* exactly MediaTTL later was served from the cache
C2_Witness ==
    /\ Then("loadAllMediaFiles", "loadAllMediaFiles")
    /\ prev.rec.ok /\ prev.rec.reqs # <<>>
    /\ Len(prev.rec.val[1]) = 2
    /\ now - prev.at = MediaTTL
    /\ last.reqs = <<>> /\ last.val = prev.rec.val

\* What a load returned when the remote gave it nothing to cache
EmptyResult(rec) ==
    /\ rec.ok /\ rec.reqs # <<>>
    /\ rec.val = Null \/ rec.val = Some(<<>>)

\* C3 (empty-result non-caching): when the remote returns an empty media
\* list to loadAllMediaFiles, or no timeline (404) or an empty track list to
\* loadTimeline, no cache entry is written for the key, and the next load of
\* the key issues a request again.
C3_EmptyResultNotCached ==
    /\ (last.op = "loadAllMediaFiles" /\ EmptyResult(last))
           => last.key \notin DOMAIN mediaCache
    /\ (last.op = "loadTimeline" /\ EmptyResult(last))
           => last.key \notin DOMAIN timelinesCache
    /\ ( /\ Then("loadAllMediaFiles", "loadAllMediaFiles") \/
            Then("loadTimeline", "loadTimeline")
         /\ EmptyResult(prev.rec) )
       => last.reqs # <<>>

\* A loadTimeline got an empty track list from the remote (200), and the next
\* loadTimeline of the scene asked the remote again
C3_Witness ==
    /\ Then("loadTimeline", "loadTimeline")
    /\ EmptyResult(prev.rec) /\ prev.rec.val = Some(<<>>)
    /\ prev.rec.reqs[1].status = 200
    /\ Len(last.reqs) = 1
    /\ last.key \notin DOMAIN timelinesCache

\* The elements of a track list, each with the id of its track
ElementsOf(trackList) ==
    UNION { { <<trackList[i].id, trackList[i].elements[j]>> :
                j \in 1..Len(trackList[i].elements) } : i \in 1..Len(trackList) }

References(e, id) == e[2].type = "media" /\ e[2].mediaId = id

\* C4 (cascade completeness): with N elements referencing media M and K
\* elements referencing other ids or no media, removeMediaFile(projectId, M)
\* selects and deletes exactly those N elements and leaves the K others as
\* they were, whatever tracks they are spread over.
C4_CascadeCompleteness ==
    last.op = "removeMediaFile" =>
        LET M == last.arg[1]
            before == ElementsOf(last.arg[2])
            N == { e \in before : References(e, M) }
            K == before \ N
            selected == last.val[1]
        IN /\ { <<selected[i].trackId, selected[i].elementId>> :
                  i \in 1..Len(selected) } = { <<e[1], e[2].id>> : e \in N }
           /\ Len(selected) = Cardinality(N)
           /\ ElementsOf(tracks) = K
           /\ \A i \in 1..Len(tracks) :
                  Len(tracks[i].elements) =
                      Cardinality({ e \in K : e[1] = tracks[i].id })

\* removeMediaFile ran on tracks where two elements on two tracks referenced
\* M and two others did not
C4_Witness ==
    /\ last.op = "removeMediaFile"
    /\ LET M == last.arg[1]
           before == ElementsOf(last.arg[2])
           N == { e \in before : References(e, M) }
       IN /\ Cardinality(N) = 2
          /\ Cardinality({ e[1] : e \in N }) = 2
          /\ Cardinality(before \ N) = 2
          /\ ElementsOf(tracks) = before \ N

\* C5 (idempotent delete): deleteProject and deleteMediaFile on an id the
\* remote does not hold (404) return without raising, and a delete that
\* follows a successful delete of the same id succeeds too.
C5_IdempotentDelete ==
    /\ ( /\ last.op \in {"deleteProject", "deleteMediaFile"}
         /\ last.reqs[1].status = 404 )
       => last.ok
    /\ ( /\ Then("deleteProject", "deleteProject") \/
            Then("deleteMediaFile", "deleteMediaFile")
         /\ prev.rec.ok )
       => last.ok

\* A media was deleted (200) and then deleted again (404): both returned
C5_Witness ==
    /\ Then("deleteMediaFile", "deleteMediaFile")
    /\ prev.rec.ok /\ prev.rec.reqs[1].status = 200
    /\ last.ok /\ last.reqs[1].status = 404

\* C6 (main-scene protection): a DELETE of a scene whose isMain is true is
\* rejected with 400 and no table is changed: the scene and its timeline
\* stay stored.
C6_MainSceneProtected ==
    ( /\ last.op = "DELETE /api/scenes"
      /\ last.key \in DOMAIN last.arg[1].scenes
      /\ last.arg[1].scenes[last.key].isMain )
    => /\ ~last.ok
       /\ last.reqs[1].status = 400
       /\ DB = last.arg[1]

\* The DELETE of a main scene that has a timeline was answered 400
C6_Witness ==
    /\ last.op = "DELETE /api/scenes"
    /\ last.reqs[1].status = 400
    /\ last.key \in DOMAIN scenes /\ scenes[last.key].isMain
    /\ last.key \in DOMAIN timelines

\* C7 (project round trip): a loadProject that follows a successful
\* saveProject of the same id returns the saved project: its scenes (ids,
\* names, isMain, order), currentSceneId and scalar fields, whether the save
\* created the project or updated it.
C7_ProjectRoundTrip ==
    (Then("saveProject", "loadProject") /\ prev.rec.ok)
        => (last.ok /\ last.val = prev.rec.arg)

\* C7, the half that holds: the round trip of a save that created the project
C7_RoundTripOnCreate ==
    ( /\ Then("saveProject", "loadProject") /\ prev.rec.ok
      /\ prev.rec.reqs[2].method = "POST" )
        => (last.ok /\ last.val = prev.rec.arg)

\* A save updated an existing project (PUT, 200) with scenes that differ from
\* the stored ones, and the load that followed returned other scenes than
\* the saved ones
C7_Witness ==
    /\ Then("saveProject", "loadProject") /\ prev.rec.ok
    /\ prev.rec.reqs[2].method = "PUT" /\ prev.rec.reqs[2].status = 200
    /\ last.ok /\ last.val # Null
    /\ last.val[1].scenes # prev.rec.arg[1].scenes

\* C8 (saveTimeline refreshes the cache): after a successful
\* saveTimeline(sceneId, tracks) the remote holds tracks as the whole
\* timeline of the scene and the cache entry of sceneId holds tracks with the
\* time of the save, and a loadTimeline(sceneId) that follows within the TTL
\* returns tracks without a request.
C8_SaveTimelineRefreshes ==
    /\ (last.op = "saveTimeline" /\ last.ok)
       => /\ IdbGet(timelines, last.key) = Some(TimelineRow(last.arg[1]))
          /\ IdbGet(timelinesCache, last.key)
                 = Some(CacheEntry(last.arg[1], now, CacheVersion))
    /\ ( /\ Then("saveTimeline", "loadTimeline") /\ prev.rec.ok
         /\ now - prev.at <= TimelineTTL )
       => (last.ok /\ last.val = prev.rec.arg /\ last.reqs = <<>>)

\* A timeline of two tracks was saved and loaded from the cache exactly
\* TimelineTTL later
C8_Witness ==
    /\ Then("saveTimeline", "loadTimeline") /\ prev.rec.ok
    /\ Len(prev.rec.arg[1]) = 2
    /\ now - prev.at = TimelineTTL
    /\ last.val = prev.rec.arg /\ last.reqs = <<>>

\* C9 (saveMediaFile invalidates): after a successful
\* saveMediaFile(projectId, item) the media cache holds no entry for
\* projectId, and the loadAllMediaFiles(projectId) that follows fetches from
\* the remote and returns a list that contains the item.
C9_SaveMediaInvalidates ==
    /\ (last.op = "saveMediaFile" /\ last.ok) => last.key \notin DOMAIN mediaCache
    /\ (Then("saveMediaFile", "loadAllMediaFiles") /\ prev.rec.ok)
       => /\ last.ok
          /\ Len(last.reqs) = 1
          /\ prev.rec.arg[1] \in IdsOf(last.val[1])

\* A second media was saved and the load that followed fetched both
C9_Witness ==
    /\ Then("saveMediaFile", "loadAllMediaFiles") /\ prev.rec.ok
    /\ Len(last.reqs) = 1 /\ last.reqs[1].status = 200
    /\ IdsOf(last.val[1]) = MediaIds

\* C10 (deleteMediaFile invalidates): after deleteMediaFile(projectId, id)
\* returned, the media cache holds no entry for projectId, and the
\* loadAllMediaFiles(projectId) that follows fetches from the remote and
\* returns a list that does not contain id.
C10_DeleteMediaInvalidates ==
    /\ (last.op = "deleteMediaFile" /\ last.ok) => last.key \notin DOMAIN mediaCache
    /\ (Then("deleteMediaFile", "loadAllMediaFiles") /\ prev.rec.ok)
       => /\ last.ok
          /\ Len(last.reqs) = 1
          /\ prev.rec.arg[1] \notin IdsOf(last.val[1])

\* One of two media was deleted (200) and the load that followed fetched the
\* other alone
C10_Witness ==
    /\ Then("deleteMediaFile", "loadAllMediaFiles") /\ prev.rec.ok
    /\ prev.rec.reqs[1].status = 200
    /\ Len(last.reqs) = 1
    /\ Cardinality(IdsOf(last.val[1])) = 1


\* The last request of the operation recorded in rec
LastReq(rec) == rec.reqs[Len(rec.reqs)]

(***************************************************************************)
(* C11. RemoteProjectsAdapter.set (through saveProject) first issues a GET *)
(* for the id, then exactly one write: a PUT to the project when the GET   *)
(* found it, a POST to the collection when the GET answered 404. When the  *)
(* GET fails otherwise, no write is issued and the operation raises.       *)
(***************************************************************************)
C11_SetGetThenWrite ==
    last.op = "saveProject" =>
        LET get == last.reqs[1] IN
        /\ get.method = "GET"
        /\ get.url = <<"/api/projects", last.key>>
        /\ ResponseOk(get.status) =>
               /\ Len(last.reqs) = 2
               /\ last.reqs[2].method = "PUT"
               /\ last.reqs[2].url = <<"/api/projects", last.key>>
        /\ get.status = 404 =>
               /\ Len(last.reqs) = 2
               /\ last.reqs[2].method = "POST"
               /\ last.reqs[2].url = <<"/api/projects">>
        /\ (~ResponseOk(get.status) /\ get.status # 404) =>
               /\ Len(last.reqs) = 1
               /\ ~last.ok
        /\ (Len(last.reqs) = 2 /\ ~ResponseOk(last.reqs[2].status)) => ~last.ok

\* A save of a project the remote holds: the GET found it and a PUT followed
C11_Witness ==
    /\ last.op = "saveProject"
    /\ last.reqs[1].status = 200
    /\ Len(last.reqs) = 2
    /\ last.reqs[2].method = "PUT"
    /\ last.ok

\* A save whose GET failed: one request, the error raised
C11_WitnessGetFailed ==
    /\ last.op = "saveProject"
    /\ last.reqs[1].status = 500
    /\ Len(last.reqs) = 1
    /\ ~last.ok

\* A save of a project the remote lacks: the GET answered 404, a POST followed
C11_WitnessCreate ==
    /\ last.op = "saveProject"
    /\ last.reqs[1].status = 404
    /\ last.reqs[2].method = "POST"
    /\ last.ok


\* Whether the list and the tracks hold nothing of media id
GoneLocally(id) ==
    /\ id \notin IdsOf(mediaFiles)
    /\ \A e \in ElementsOf(tracks) : ~References(e, id)

(***************************************************************************)
(* C12. removeMediaFile issues the remote deletion only after the local    *)
(* removal and the timeline cascade: while its request is awaited, the     *)
(* list lacks the id and no element references it.  When the remote        *)
(* deletion fails the error is not raised and nothing is undone: after the *)
(* call the list is the list before the call without the id, and the       *)
(* tracks hold no element that references it.                              *)
(***************************************************************************)
C12_RemoveLocalFirst ==
    /\ \A c \in pending : c.op = "removeMediaFile" => GoneLocally(c.id)
    /\ (last.op = "removeMediaFile" /\ pending = {}) =>
           /\ last.ok
           /\ GoneLocally(last.arg[1])
           /\ mediaFiles = SelectSeq(last.arg[3], LAMBDA m : m.id # last.arg[1])

\* removeMediaFile of a file the list held and two elements used, whose
\* remote deletion failed
C12_Witness ==
    /\ last.op = "removeMediaFile"
    /\ pending = {}
    /\ last.reqs[1].status = 500
    /\ last.arg[1] \in IdsOf(last.arg[3])
    /\ Len(last.val[1]) = 2
    /\ last.arg[1] \in { media[i].id : i \in 1..Len(media) }

\* removeMediaFile awaiting its request, the file and its elements gone
C12_WitnessAwaiting ==
    \E c \in pending :
        /\ c.op = "removeMediaFile"
        /\ c.id \in IdsOf(c.mediaFiles)
        /\ Len(c.elements) > 0
        /\ GoneLocally(c.id)

(***************************************************************************)
(* C13. addMediaFile adds the item to the list before the upload is        *)
(* issued: while its request is awaited the list holds the item.  When     *)
(* saveMediaFile fails the item is removed again, the list is the list as  *)
(* it was before the call, and no error reaches the caller; when it        *)
(* succeeds the list is the list before the call with the item appended.   *)
(***************************************************************************)
C13_AddOptimistic ==
    /\ \A c \in pending :
           c.op = "addMediaFile" =>
               mediaFiles = Append(c.mediaFiles, NewMediaFile(c.id))
    /\ (last.op = "addMediaFile" /\ pending = {}) =>
           /\ last.ok
           /\ mediaFiles = IF ResponseOk(last.reqs[1].status)
                           THEN Append(last.arg[2], NewMediaFile(last.arg[1]))
                           ELSE last.arg[2]

\* addMediaFile to a list that held a file, whose upload failed
C13_Witness ==
    /\ last.op = "addMediaFile"
    /\ pending = {}
    /\ last.reqs[1].status = 500
    /\ Len(last.arg[2]) = 1
    /\ mediaFiles = last.arg[2]

\* addMediaFile awaiting its upload, the item in the list
C13_WitnessAwaiting ==
    \E c \in pending :
        /\ c.op = "addMediaFile"
        /\ c.id \in IdsOf(mediaFiles)


\* Whether the remote part of the operation recorded in rec succeeded: it
\* issued no request, or its last request was answered with success, or with
\* the 404 that loadTimeline takes for "no timeline yet"
RemoteSucceeded(rec) ==
    \/ rec.reqs = <<>>
    \/ ResponseOk(LastReq(rec).status)
    \/ rec.op = "loadTimeline" /\ LastReq(rec).status = 404

(***************************************************************************)
(* C14. Failures of the cache layer are absorbed: loadAllMediaFiles,       *)
(* loadTimeline and saveTimeline return normally whenever their remote     *)
(* part succeeds, whatever the on-device store does.                       *)
(***************************************************************************)
C14_CacheFailuresAbsorbed ==
    (last.op \in {"loadAllMediaFiles", "loadTimeline", "saveTimeline"}
        /\ RemoteSucceeded(last)) => last.ok

\* saveTimeline raised although PUT /api/timelines answered 200 and the
\* remote holds the saved tracks
C14_Witness ==
    /\ last.op = "saveTimeline"
    /\ last.reqs[1].status = 200
    /\ ~last.ok
    /\ last.key \in DOMAIN timelines
    /\ timelines[last.key].tracks = last.arg[1]

\* loadAllMediaFiles raised although GET /api/media answered 200
C14_WitnessLoad ==
    /\ last.op = "loadAllMediaFiles"
    /\ last.reqs[1].status = 200
    /\ ~last.ok


\* The operations of the storage service that write to the remote
CoordinatorWrites ==
    {"saveProject", "deleteProject", "saveMediaFile", "deleteMediaFile",
     "saveTimeline"}

\* Whether the operation recorded in rec ended on a request answered with a
\* non-success status other than the 404 a delete tolerates
WriteFailed(rec) ==
    /\ rec.reqs # <<>>
    /\ ~ResponseOk(LastReq(rec).status)
    /\ ~(LastReq(rec).method = "DELETE" /\ LastReq(rec).status = 404)

(***************************************************************************)
(* C15. Every write of the storage service (saveProject, deleteProject,    *)
(* saveMediaFile, deleteMediaFile, saveTimeline) raises when the remote    *)
(* answers with a non-success status other than the tolerated 404 of a     *)
(* delete, and the step leaves the media and timeline caches as they were. *)
(***************************************************************************)
C15_WriteFailuresRaise ==
    [][ (last'.op \in CoordinatorWrites /\ WriteFailed(last')) =>
            (~last'.ok /\ UNCHANGED cacheVars) ]_vars

\* A saveTimeline that failed while the cache held other tracks for the
\* scene: the cache still holds them
C15_Witness ==
    /\ last.op = "saveTimeline"
    /\ last.reqs[1].status = 500
    /\ ~last.ok
    /\ last.key \in DOMAIN timelinesCache
    /\ timelinesCache[last.key].data # last.arg[1]

\* A saveMediaFile that failed while the cache held the media of the project
C15_WitnessMedia ==
    /\ last.op = "saveMediaFile"
    /\ last.reqs[1].status = 500
    /\ ~last.ok
    /\ last.key \in DOMAIN mediaCache


(***************************************************************************)
(* C16. RemoteProjectsAdapter.get, and loadProject over it, return null    *)
(* when the remote answers 404; loadTimeline returns null on 404 and       *)
(* writes nothing to the cache.  Any other non-success status is raised.   *)
(***************************************************************************)
C16_NotFoundIsNull ==
    /\ last.op = "loadProject" =>
           /\ Len(last.reqs) = 1
           /\ last.reqs[1].status = 404 => (last.ok /\ last.val = Null)
           /\ (~ResponseOk(last.reqs[1].status) /\ last.reqs[1].status # 404)
                  => ~last.ok
           /\ ResponseOk(last.reqs[1].status) => (last.ok /\ last.val # Null)
    /\ (last.op = "loadTimeline" /\ last.reqs # <<>>) =>
           /\ last.reqs[1].status = 404 =>
                  /\ last.ok
                  /\ last.val = Null
                  /\ last.key \notin DOMAIN timelinesCache
           /\ (~ResponseOk(last.reqs[1].status) /\ last.reqs[1].status # 404)
                  => ~last.ok

\* loadProject of a project the remote does not hold
C16_Witness ==
    /\ last.op = "loadProject"
    /\ last.reqs[1].status = 404
    /\ last.ok
    /\ last.val = Null

\* loadTimeline of a scene without a timeline: null, and nothing cached
C16_WitnessTimeline ==
    /\ last.op = "loadTimeline"
    /\ last.reqs # <<>>
    /\ last.reqs[1].status = 404
    /\ last.val = Null
    /\ last.key \notin DOMAIN timelinesCache

\* loadProject and loadTimeline answered 500: raised
C16_WitnessRaised ==
    /\ last.op \in {"loadProject", "loadTimeline"}
    /\ last.reqs # <<>>
    /\ last.reqs[1].status = 500
    /\ ~last.ok


\* Whether the operation recorded in rec issued a DELETE that failed
SomeDeletionFailed(rec) ==
    \E i \in 1..Len(rec.reqs) :
        /\ rec.reqs[i].method = "DELETE"
        /\ ~ResponseOk(rec.reqs[i].status)
        /\ rec.reqs[i].status # 404

(***************************************************************************)
(* C17. deleteProjectMedia invalidates the media cache entry of the        *)
(* project once at its end whatever the outcome of the deletions: after    *)
(* it returned, or raised because a deletion failed, the media cache       *)
(* holds no entry for the project.                                         *)
(***************************************************************************)
C17_InvalidatesRegardless ==
    (last.op = "deleteProjectMedia" /\ (last.ok \/ SomeDeletionFailed(last)))
        => last.key \notin DOMAIN mediaCache

\* What holds instead: when deleteProjectMedia returns, the entry is gone
C17_InvalidatesOnReturn ==
    (last.op = "deleteProjectMedia" /\ last.ok)
        => last.key \notin DOMAIN mediaCache

\* deleteProjectMedia raised because its only deletion failed, and the
\* media cache still holds the list with the file
C17_Witness ==
    /\ last.op = "deleteProjectMedia"
    /\ ~last.ok
    /\ SomeDeletionFailed(last)
    /\ last.key \in DOMAIN mediaCache
    /\ Len(mediaCache[last.key].data) = 1

\* deleteProjectMedia returned after deleting a file; the entry is gone
C17_WitnessReturned ==
    /\ last.op = "deleteProjectMedia"
    /\ last.ok
    /\ Len(last.reqs) >= 1
    /\ LastReq(last).method = "DELETE"
    /\ last.key \notin DOMAIN mediaCache


\* The project operations of the storage service
ProjectOps == {"saveProject", "loadProject", "loadAllProjects", "deleteProject"}

(***************************************************************************)
(* C18. Project operations are never cached.  Every loadProject issues     *)
(* one GET for the project and returns what the remote holds at that       *)
(* moment (null when it holds none); every loadAllProjects issues one GET  *)
(* for the collection and returns the projects the remote holds.  No step  *)
(* of saveProject, loadProject, loadAllProjects or deleteProject changes   *)
(* the media cache or the timeline cache.                                  *)
(***************************************************************************)
C18_ProjectsNeverCached ==
    [][ /\ last'.op \in ProjectOps => UNCHANGED cacheVars
        /\ last'.op = "loadProject" =>
               /\ Len(last'.reqs) = 1
               /\ last'.reqs[1].method = "GET"
               /\ last'.reqs[1].url = <<"/api/projects", last'.key>>
               /\ last'.ok =>
                      IF last'.key \in DOMAIN projects'
                      THEN /\ last'.val # Null
                           /\ last'.val[1].name = projects'[last'.key].name
                      ELSE last'.val = Null
        /\ last'.op = "loadAllProjects" =>
               /\ Len(last'.reqs) = 1
               /\ last'.reqs[1].method = "GET"
               /\ last'.reqs[1].url = <<"/api/projects">>
               /\ last'.ok =>
                      /\ last'.val # Null
                      /\ IdsOf(last'.val[1]) = DOMAIN projects'
                      /\ \A k \in 1..Len(last'.val[1]) :
                             last'.val[1][k].name =
                                 projects'[last'.val[1][k].id].name
      ]_vars

\* Two loadProject calls in a row, each with its own GET, the second
\* returning the name the remote got from a later save, while both caches
\* hold an entry
C18_Witness ==
    /\ Then("loadProject", "loadProject")
    /\ Len(prev.rec.reqs) = 1
    /\ Len(last.reqs) = 1
    /\ last.val # Null
    /\ last.val[1].name = "Film 2"
    /\ "p1" \in DOMAIN mediaCache
    /\ "s1" \in DOMAIN timelinesCache

\* loadAllProjects while both caches hold an entry
C18_WitnessAll ==
    /\ last.op = "loadAllProjects"
    /\ last.ok
    /\ Len(last.val[1]) = 1
    /\ "p1" \in DOMAIN mediaCache
    /\ "s1" \in DOMAIN timelinesCache


(***************************************************************************)
(* C19. deleteProjectTimeline(sceneId) issues no request and leaves the    *)
(* remote as it was; its only effect is that the timeline cache holds no   *)
(* entry for sceneId: the other entries, the media cache and the stores    *)
(* are unchanged.                                                          *)
(***************************************************************************)
C19_DeleteTimelineLocalOnly ==
    [][ last'.op = "deleteProjectTimeline" =>
            /\ last'.reqs = <<>>
            /\ last'.ok
            /\ UNCHANGED <<dbVars, mediaCache, storeVars>>
            /\ timelinesCache' = Without(timelinesCache, last'.key)
      ]_vars

\* deleteProjectTimeline right after a saveTimeline that cached the tracks:
\* the entry is gone and the remote still holds the timeline
C19_Witness ==
    /\ Then("saveTimeline", "deleteProjectTimeline")
    /\ prev.rec.ok
    /\ last.key \notin DOMAIN timelinesCache
    /\ last.key \in DOMAIN timelines
    /\ timelines[last.key].tracks = prev.rec.arg[1]


InvalidatingOps == {"saveMediaFile", "deleteMediaFile", "deleteProjectTimeline"}

\* Whether the remote part of an invalidating operation succeeded: no
\* request, a success status, or the 404 a delete tolerates
RemoteAccepted(rec) ==
    \/ rec.reqs = <<>>
    \/ ResponseOk(LastReq(rec).status)
    \/ LastReq(rec).method = "DELETE" /\ LastReq(rec).status = 404

(***************************************************************************)
(* C21. CacheAdapter.invalidate(key) never raises.  It returns normally    *)
(* whether or not the removal in the store succeeds, so saveMediaFile,     *)
(* deleteMediaFile and deleteProjectTimeline return normally whenever      *)
(* their remote part succeeded; and when the removal succeeds the store    *)
(* holds no entry for key.                                                 *)
(***************************************************************************)
C21_InvalidateNeverRaises ==
    /\ last.op = "cache.invalidate" =>
           /\ last.ok
           /\ last.arg[1] => last.key[2] \notin DOMAIN PartStore(last.key[1])
    /\ (last.op \in InvalidatingOps /\ RemoteAccepted(last)) => last.ok

\* saveMediaFile returned normally after its upload although the removal of
\* the cache entry failed: the entry is still in the store
C21_Witness ==
    /\ last.op = "saveMediaFile"
    /\ last.reqs[1].status = 200
    /\ last.ok
    /\ last.key \in DOMAIN mediaCache

\* invalidate whose removal failed: it returned normally, the entry stays
C21_WitnessSwallowed ==
    /\ last.op = "cache.invalidate"
    /\ ~last.arg[1]
    /\ last.ok
    /\ last.key[2] \in DOMAIN PartStore(last.key[1])

\* deleteProjectTimeline whose removal failed: it returned normally
C21_WitnessTimeline ==
    /\ last.op = "deleteProjectTimeline"
    /\ last.ok
    /\ last.key \in DOMAIN timelinesCache


(***************************************************************************)
(* C22. After clearAllData returned normally, the remote holds none of the *)
(* projects it listed, and the media cache and the timeline cache hold no  *)
(* entry.                                                                  *)
(***************************************************************************)
C22_ClearAllDataClears ==
    (last.op = "clearAllData" /\ last.ok) =>
        /\ Range(last.val[1]) \cap DOMAIN projects = {}
        /\ mediaCache = EmptyStore
        /\ timelinesCache = EmptyStore

\* clearAllData returned normally on a remote that listed two projects,
\* called while both caches held an entry
C22_Witness ==
    /\ last.op = "clearAllData"
    /\ last.ok
    /\ Len(last.val[1]) = 2
    /\ last.arg[1] # {}
    /\ last.arg[2] # {}
    /\ projects = EmptyStore
    /\ mediaCache = EmptyStore
    /\ timelinesCache = EmptyStore

\* clearAllData raised on the clear of a cache after the projects were
\* removed
C22_WitnessCacheFailed ==
    /\ last.op = "clearAllData"
    /\ ~last.ok
    /\ last.val # Null
    /\ Len(last.val[1]) = 2
    /\ projects = EmptyStore
    /\ timelinesCache # EmptyStore


\* The positions of the requests in rec that are a DELETE of project id
RemovalsOf(rec, id) ==
    { i \in 1..Len(rec.reqs) :
        /\ rec.reqs[i].method = "DELETE"
        /\ rec.reqs[i].url = <<"/api/projects", id>> }

\* The ids whose removal in rec was answered with a failure
FailedRemovalsOf(rec, ids) ==
    { id \in ids :
        \E i \in RemovalsOf(rec, id) :
            /\ ~ResponseOk(rec.reqs[i].status)
            /\ rec.reqs[i].status # 404 }

(***************************************************************************)
(* C30. RemoteProjectsAdapter.clear lists the ids and removes them one by  *)
(* one: one DELETE for each listed id and no other request.  When some     *)
(* removal fails, clear raises, the projects whose removal succeeded are   *)
(* gone and the remote still holds the others, a non-empty remainder; when *)
(* every removal succeeds, clear returns and the remote holds none of the  *)
(* listed projects.  When the listing fails, clear raises and removes      *)
(* nothing.                                                                *)
(***************************************************************************)
C30_ClearNotAtomic ==
    last.op = "adapter.clear" =>
        IF last.val = Null
        THEN ~last.ok /\ Len(last.reqs) = 1
        ELSE LET listed == Range(last.val[1])
                 failed == FailedRemovalsOf(last, listed)
             IN /\ Len(last.reqs) = 1 + Cardinality(listed)
                /\ \A id \in listed : Cardinality(RemovalsOf(last, id)) = 1
                /\ listed \cap DOMAIN projects = failed
                /\ last.ok <=> failed = {}

\* clear on two projects, one removal failed: clear raised, one project is
\* gone and the other remains
C30_Witness ==
    /\ last.op = "adapter.clear"
    /\ last.val # Null
    /\ Len(last.val[1]) = 2
    /\ ~last.ok
    /\ Cardinality(FailedRemovalsOf(last, Range(last.val[1]))) = 1
    /\ Cardinality(DOMAIN projects) = 1

\* clear on two projects, both removed
C30_WitnessAll ==
    /\ last.op = "adapter.clear"
    /\ last.ok
    /\ Len(last.val[1]) = 2
    /\ projects = EmptyStore


\* The scenes of project p that the scenes table marks as main
MainScenes(p) == { s \in DOMAIN scenes : scenes[s].projectId = p /\ scenes[s].isMain }

(***************************************************************************)
(* C23. In every state of the remote, every project has exactly one scene  *)
(* whose isMain is true, after any sequence of project creates and         *)
(* updates, scene creates, scene updates and scene deletes.                *)
(***************************************************************************)
C23_ExactlyOneMain ==
    \A p \in DOMAIN projects : Cardinality(MainScenes(p)) = 1

\* A project with two main scenes, after a 200 from POST /api/scenes
C23_Witness ==
    /\ last.op = "POST /api/scenes"
    /\ last.ok
    /\ Cardinality(MainScenes("p1")) = 2

\* A project with scenes and no main scene, after a 200 from PUT /api/scenes
C23_WitnessNoMain ==
    /\ last.op = "PUT /api/scenes"
    /\ last.ok
    /\ "p1" \in DOMAIN projects
    /\ \E s \in DOMAIN scenes : scenes[s].projectId = "p1"
    /\ MainScenes("p1") = {}


(***************************************************************************)
(* C24. Whatever the interleaving of timeline upserts, an upsert that      *)
(* reports success has stored its whole track collection as the timeline   *)
(* of its scene, and a scene never gets a second timeline: the INSERT of   *)
(* an upsert that lost the race for a new timeline is rejected, the        *)
(* upsert reports a failure and the row of the winner stays as it is.      *)
(***************************************************************************)
C24_UpsertStoresOrFails ==
    [][ last'.op = "PUT /api/timelines" =>
            /\ last'.ok =>
                   /\ last'.key \in DOMAIN timelines'
                   /\ timelines'[last'.key] = TimelineRow(last'.arg[2])
            /\ (~last'.arg[3] /\ last'.arg[4]) =>
                   /\ ~last'.ok
                   /\ UNCHANGED dbVars
            /\ \A k \in DOMAIN timelines' \ {last'.key} :
                   k \in DOMAIN timelines /\ timelines'[k] = timelines[k]
      ]_vars

\* Two upserts raced for the first timeline of a scene: the one whose
\* INSERT came second reported a failure, the row is the winner's
C24_Witness ==
    /\ last.op = "PUT /api/timelines"
    /\ ~last.arg[3]
    /\ last.arg[4]
    /\ ~last.ok
    /\ last.key \in DOMAIN timelines
    /\ timelines[last.key].tracks # last.arg[2]

\* Two upserts raced on a scene that had a timeline: both UPDATEs reported
\* success, the row is the one of the later write
C24_WitnessUpdates ==
    /\ last.op = "PUT /api/timelines"
    /\ last.arg[3]
    /\ last.ok
    /\ pending = {}
    /\ timelines[last.key].tracks = last.arg[2]


\* Whether a track list holds an element that uses media id
Uses(trackList, id) == \E e \in ElementsOf(trackList) : References(e, id)

(***************************************************************************)
(* C25. After removeMediaFile(projectId, id) finished with a successful    *)
(* remote deletion, no timeline of the project holds an element whose      *)
(* mediaId is id: not the tracks in memory, not an entry of the timeline   *)
(* cache, not a row of the timelines table, for whichever scene.           *)
(***************************************************************************)
C25_NoReferenceAnywhere ==
    (last.op = "removeMediaFile" /\ last.reqs[1].status = 200) =>
        LET id == last.arg[1] IN
        /\ ~Uses(tracks, id)
        /\ \A s \in DOMAIN timelinesCache : ~Uses(timelinesCache[s].data, id)
        /\ \A s \in DOMAIN timelines : ~Uses(timelines[s].tracks, id)

\* What holds instead: the tracks in memory hold no such element
C25_NoReferenceInMemory ==
    (last.op = "removeMediaFile" /\ last.reqs[1].status = 200) =>
        ~Uses(tracks, last.arg[1])

\* removeMediaFile deleted the media on the remote and cleared the tracks in
\* memory of it, while the timelines table and the timeline cache still
\* hold an element that uses it
C25_Witness ==
    /\ last.op = "removeMediaFile"
    /\ last.reqs[1].status = 200
    /\ ~Uses(tracks, last.arg[1])
    /\ \E s \in DOMAIN timelines : Uses(timelines[s].tracks, last.arg[1])
    /\ \E s \in DOMAIN timelinesCache : Uses(timelinesCache[s].data, last.arg[1])


(***************************************************************************)
(* C26. RemoteProjectsAdapter.set takes no lock.  The write of a set is    *)
(* chosen by the answer of its own GET alone, whatever other sets did in   *)
(* between: not-found is followed by a POST, found by a PUT.  So when two  *)
(* sets of the same new id are started without awaiting the first, both    *)
(* GETs can observe not-found and both calls then issue a POST for that    *)
(* id (C26_Witness).                                                       *)
(***************************************************************************)
C26_NoLockAroundSet ==
    (last.op = "adapter.set" /\ Len(last.reqs) = 2) =>
        /\ last.reqs[1].method = "GET"
        /\ last.reqs[2].method = IF last.reqs[1].status = 404 THEN "POST" ELSE "PUT"

\* Two sets of the same new id, neither awaited: both GETs were answered
\* 404 and both calls issued a POST; the second POST failed
C26_Witness ==
    /\ Then("adapter.set", "adapter.set")
    /\ prev.rec.arg[1] # last.arg[1]
    /\ prev.rec.reqs[1].status = 404
    /\ last.reqs[1].status = 404
    /\ Len(prev.rec.reqs) = 2 /\ prev.rec.reqs[2].method = "POST"
    /\ Len(last.reqs) = 2 /\ last.reqs[2].method = "POST"
    /\ prev.rec.ok
    /\ ~last.ok


(***************************************************************************)
(* C27. The eviction of a stale read is safe to race with a set: when      *)
(* CacheAdapter.get found a stale entry and a set on the same key          *)
(* completed before the get's removal ran, the entry of that set is still  *)
(* in the store when the get has finished.                                 *)
(***************************************************************************)
\* The last get ran its removal, and a set completed after its read
Overtaken ==
    /\ last.op = "cache.get"
    /\ last.arg # Null
    /\ last.key \in DOMAIN written
    /\ written[last.key] # last.arg[1]

C27_EvictionKeepsFreshSet ==
    Overtaken =>
        /\ last.key[2] \in DOMAIN PartStore(last.key[1])
        /\ PartStore(last.key[1])[last.key[2]] = written[last.key]

\* The removal of an overtaken get took the entry the set had just written:
\* the set is not stale and the store holds nothing for the key
C27_Witness ==
    /\ Overtaken
    /\ ~IsStale(written[last.key], now, PartTTL(last.key[1]))
    /\ last.key[2] \notin DOMAIN PartStore(last.key[1])


(***************************************************************************)
(* C28. getWithMetadata and getRemainingTTL evict like get: they report a  *)
(* miss (null, respectively -1) exactly when get would return null, also   *)
(* when the age of the entry equals the ttl, and when they have returned   *)
(* the store holds no stale entry under the key.                           *)
(***************************************************************************)
\* What get would return for the key of the last call, at the time of it
GetOfLast ==
    CacheGet(PartStore(last.key[1]), last.key[2], now, PartTTL(last.key[1]), TRUE).val

NoStaleEntryLeft ==
    last.key[2] \in DOMAIN PartStore(last.key[1]) =>
        ~IsStale(PartStore(last.key[1])[last.key[2]], now, PartTTL(last.key[1]))

C28_SameEvictionAsGet ==
    /\ last.op = "cache.getWithMetadata" =>
           /\ (last.val = Null) <=> (GetOfLast = Null)
           /\ NoStaleEntryLeft
    /\ last.op = "cache.getRemainingTTL" =>
           /\ (last.val = Some(-1)) <=> (GetOfLast = Null)
           /\ NoStaleEntryLeft

\* The part of it that holds: getWithMetadata misses when get does and leaves
\* no stale entry
C28_MetadataSameAsGet ==
    last.op = "cache.getWithMetadata" =>
        /\ (last.val = Null) <=> (GetOfLast = Null)
        /\ NoStaleEntryLeft

\* getRemainingTTL answered -1 for an entry whose age equals the ttl, which
\* get returns
C28_Witness ==
    /\ last.op = "cache.getRemainingTTL"
    /\ last.val = Some(-1)
    /\ last.key[2] \in DOMAIN PartStore(last.key[1])
    /\ now - PartStore(last.key[1])[last.key[2]].timestamp = PartTTL(last.key[1])
    /\ GetOfLast # Null

\* getRemainingTTL returned and the stale entry is still in the store
C28_WitnessStaleKept ==
    /\ last.op = "cache.getRemainingTTL"
    /\ last.val = Some(-1)
    /\ ~NoStaleEntryLeft

\* getWithMetadata found a stale entry and removed it
C28_WitnessMetadataEvicts ==
    /\ last.op = "cache.getWithMetadata"
    /\ last.val = Null
    /\ last.key \in DOMAIN written
    /\ IsStale(written[last.key], now, PartTTL(last.key[1]))
    /\ last.key[2] \notin DOMAIN PartStore(last.key[1])


(***************************************************************************)
(* C29. deleteProjectMedia issues one DELETE /api/media/:id for every item *)
(* of the loaded media list and no batch call.  A deletion that fails does *)
(* not stop the deletions of the other items and nothing is undone:        *)
(* afterwards the remote holds exactly the items whose deletion failed.    *)
(***************************************************************************)
\* The requests of rec after the loading of the list
DeletionsOf(rec) ==
    SelectSeq(rec.reqs, LAMBDA req : req.method # "GET")

\* The list was loaded, so the deletions were started
ListLoaded(rec) ==
    rec.reqs # <<>> /\ rec.reqs[1].method = "GET" => ResponseOk(rec.reqs[1].status)

OneDeletePerItem(rec) ==
    /\ Len(DeletionsOf(rec)) = Len(rec.arg[2])
    /\ \A i \in 1..Len(rec.arg[2]) :
           /\ DeletionsOf(rec)[i].method = "DELETE"
           /\ DeletionsOf(rec)[i].url = <<"/api/media", rec.arg[2][i]>>

\* The listed ids whose DELETE was answered with a failure
FailedDeletionsOf(rec) ==
    { DeletionsOf(rec)[i].url[2] :
        i \in { j \in 1..Len(DeletionsOf(rec)) :
                  /\ ~ResponseOk(DeletionsOf(rec)[j].status)
                  /\ DeletionsOf(rec)[j].status # 404 } }

MediaOps == {"loadAllMediaFiles", "saveMediaFile", "deleteMediaFile", "deleteProjectMedia"}
TimelineOps == {"saveTimeline", "loadTimeline", "deleteProjectTimeline"}
KeyedCacheOps == {"cache.get", "cache.set", "cache.invalidate"}

\* The cache and the key an operation record is about
PartOf(rec) ==
    IF rec.op \in KeyedCacheOps THEN rec.key[1]
    ELSE IF rec.op \in MediaOps THEN "media" ELSE "timelines"
KeyOf(rec) == IF rec.op \in KeyedCacheOps THEN rec.key[2] ELSE rec.key

\* storeB holds under every key but key what storeA holds
SameButFor(storeA, storeB, key) ==
    /\ DOMAIN storeA \ {key} = DOMAIN storeB \ {key}
    /\ \A k \in DOMAIN storeA \ {key} : storeA[k] = storeB[k]

C31_KeysDoNotInterfere ==
    [][last'.op \in KeyedCacheOps \cup MediaOps \cup TimelineOps =>
          IF PartOf(last') = "media"
          THEN /\ SameButFor(mediaCache, mediaCache', KeyOf(last'))
               /\ timelinesCache' = timelinesCache
          ELSE /\ SameButFor(timelinesCache, timelinesCache', KeyOf(last'))
               /\ mediaCache' = mediaCache]_vars

\* The media list of p1 was dropped from the cache by a coordinator call for
\* p1 while the list of p2 and a timeline stay cached
C31_Witness ==
    /\ last.op \in {"saveMediaFile", "deleteMediaFile"}
    /\ last.ok
    /\ last.key = "p1"
    /\ "p1" \notin DOMAIN mediaCache
    /\ "p2" \in DOMAIN mediaCache
    /\ timelinesCache # EmptyStore

\* A get on s1 evicted its stale entry and the fresh entry of s2 stays
C31_WitnessEviction ==
    /\ last.op = "cache.get"
    /\ last.key = <<"timelines", "s1">>
    /\ last.val = Null
    /\ "s1" \in DOMAIN timelines
    /\ "s1" \notin DOMAIN timelinesCache
    /\ "s2" \in DOMAIN timelinesCache
    /\ timelinesCache["s2"].timestamp = now


(***************************************************************************)
(* C32. Media cache convergence under overlap: whenever no storage         *)
(* operation is in flight, a fresh media cache entry of a project equals   *)
(* the media list the remote holds for it, also when a loadAllMediaFiles   *)
(* overlapped a saveMediaFile or deleteMediaFile of the project.           *)
(***************************************************************************)
RemoteMediaList(projectId) == MediaListGET(DB, projectId, TRUE).body

C32_FreshMediaEntryIsRemote ==
    pending = {} =>
        \A projectId \in DOMAIN mediaCache :
            ~IsStale(mediaCache[projectId], now, MediaTTL) =>
                mediaCache[projectId].data = RemoteMediaList(projectId)

\* A load wrote the list it had fetched before a save or delete of the
\* project; nothing is in flight and the fresh entry is not the remote list
C32_Witness ==
    /\ pending = {}
    /\ last.op = "loadAllMediaFiles"
    /\ last.arg # Null
    /\ last.ok
    /\ last.key \in DOMAIN mediaCache
    /\ ~IsStale(mediaCache[last.key], now, MediaTTL)
    /\ mediaCache[last.key].data = last.arg[1]
    /\ last.arg[1] # RemoteMediaList(last.key)


(***************************************************************************)
(* C33. Timeline cache convergence under overlap: whenever no storage      *)
(* operation is in flight, a fresh timeline cache entry of a scene equals  *)
(* the timeline the remote holds for it, also when two saveTimeline calls  *)
(* for the scene overlapped.                                               *)
(***************************************************************************)
C33_FreshTimelineEntryIsRemote ==
    pending = {} =>
        \A sceneId \in DOMAIN timelinesCache :
            ~IsStale(timelinesCache[sceneId], now, TimelineTTL) =>
                /\ sceneId \in DOMAIN timelines
                /\ timelinesCache[sceneId].data = timelines[sceneId].tracks

\* Two saves overlapped: the save whose PUT the remote served first wrote the
\* cache last.  Both returned, the entry is fresh and holds its tracks, the
\* remote holds the tracks of the other
C33_Witness ==
    /\ pending = {}
    /\ last.op = "saveTimeline"
    /\ last.ok
    /\ last.key \in DOMAIN timelinesCache
    /\ ~IsStale(timelinesCache[last.key], now, TimelineTTL)
    /\ timelinesCache[last.key].data = last.arg[1]
    /\ last.key \in DOMAIN timelines
    /\ timelines[last.key].tracks # last.arg[1]


(***************************************************************************)
(* C34. After deleteProject succeeded the coordinator serves no data of    *)
(* the deleted project: loadAllMediaFiles of it returns an empty list and  *)
(* loadTimeline of each of its scenes returns null, also within the TTL of *)
(* entries cached before the deletion.                                     *)
(***************************************************************************)
C34_NothingServedAfterDelete ==
    /\ (last.op = "loadAllMediaFiles" /\ last.ok /\ last.key \notin DOMAIN projects)
           => last.val = Some(<<>>)
    /\ (last.op = "loadTimeline" /\ last.ok /\ last.key \notin DOMAIN scenes)
           => last.val = Null

\* The project is deleted on the remote, and loadAllMediaFiles returned its
\* media list from the cache without a request
C34_Witness ==
    /\ last.op = "loadAllMediaFiles"
    /\ last.ok
    /\ last.key \notin DOMAIN projects
    /\ RemoteMediaOf(DB, last.key) = {}
    /\ last.reqs = <<>>
    /\ last.val # Null
    /\ Len(last.val[1]) > 0

\* The same for the timeline of a scene of the deleted project
C34_WitnessTimeline ==
    /\ last.op = "loadTimeline"
    /\ last.ok
    /\ last.key \notin DOMAIN scenes
    /\ last.key \notin DOMAIN timelines
    /\ last.reqs = <<>>
    /\ last.val # Null


(***************************************************************************)
(* C35. If the upload of addMediaFile succeeds, the in-memory media list   *)
(* contains the new item when addMediaFile returns, also when a            *)
(* loadProjectMedia for the project ran between the optimistic insertion   *)
(* and the completion of the upload.                                       *)
(***************************************************************************)
\* addMediaFile has just returned and its upload was accepted
AddReturnedUploaded ==
    /\ pending = {}
    /\ last.op = "addMediaFile"
    /\ ResponseOk(LastReq(last).status)

C35_UploadedItemListed ==
    AddReturnedUploaded => last.arg[1] \in IdsOf(mediaFiles)

\* addMediaFile returned after an accepted upload, the remote holds the file
\* and the list in memory does not: a loadProjectMedia replaced the list
\* while the upload was awaited
C35_Witness ==
    /\ AddReturnedUploaded
    /\ last.arg[1] \in RemoteMediaOf(DB, last.key)
    /\ last.arg[1] \notin IdsOf(mediaFiles)

(***************************************************************************)
(* C36. Once removeMediaFile has removed a file from the in-memory media   *)
(* list, the file does not reappear in the list unless it is added again:  *)
(* not by a loadProjectMedia that runs while the remote deletion is        *)
(* awaited, and not by one that follows a failed remote deletion.          *)
(***************************************************************************)
C36_RemovedStaysRemoved ==
    /\ \A c \in pending :
           c.op = "removeMediaFile" => c.id \notin IdsOf(mediaFiles)
    /\ Then("removeMediaFile", "loadProjectMedia") =>
           prev.rec.arg[1] \notin IdsOf(mediaFiles)

\* The deletion of a removed file is still awaited and a loadProjectMedia
\* has put the file back into the list
C36_Witness ==
    /\ last.op = "loadProjectMedia"
    /\ \E c \in pending :
           /\ c.op = "removeMediaFile"
           /\ c.id \in IdsOf(c.mediaFiles)
           /\ c.id \in IdsOf(mediaFiles)

\* The remote deletion failed, and the loadProjectMedia after it has put the
\* file back into the list
C36_WitnessFailedDeletion ==
    /\ pending = {}
    /\ Then("removeMediaFile", "loadProjectMedia")
    /\ SomeDeletionFailed(prev.rec)
    /\ prev.rec.arg[1] \in IdsOf(mediaFiles)


(***************************************************************************)
(* C37. The stored version of a project is 1 after its creation and grows  *)
(* by exactly 1 with every successful PUT /api/projects/:id, also when two *)
(* updates of the project overlap.                                         *)
(***************************************************************************)
C37_VersionCountsUpdates ==
    [][/\ (last'.op = "saveProject" /\ last'.ok /\ last'.key \notin DOMAIN projects)
              => projects'[last'.key].version = 1
       /\ (last'.op = "PUT /api/projects/:id" /\ last'.ok
                  /\ last'.key \in DOMAIN projects)
              => projects'[last'.key].version = projects[last'.key].version + 1]_vars

\* Two updates overlapped: both read version 1, both were answered 200, and
\* the stored version is 2
C37_Witness ==
    /\ pending = {}
    /\ Then("PUT /api/projects/:id", "PUT /api/projects/:id")
    /\ prev.rec.ok /\ last.ok
    /\ prev.rec.arg[1] # last.arg[1]
    /\ prev.rec.arg[2] = 1 /\ last.arg[2] = 1
    /\ projects[last.key].version = 2


(***************************************************************************)
(* C38. loadProject and loadAllProjects agree: the scenes list and the     *)
(* currentSceneId that loadProject returns for a project equal those of    *)
(* the entry of the project in the result of loadAllProjects.              *)
(***************************************************************************)
\* The entries for id in a list of projects
EntriesOf(list, id) == { list[i] : i \in { j \in 1..Len(list) : list[j].id = id } }

SameScenes(one, entry) ==
    /\ one.scenes = entry.scenes
    /\ one.currentSceneId = entry.currentSceneId

C38_LoadsAgree ==
    /\ (last.op = "loadProject" /\ last.ok /\ last.val # Null) =>
           \A entry \in EntriesOf(loadAllProjects(DB, TRUE).val[1], last.key) :
               SameScenes(last.val[1], entry)
    /\ (last.op = "loadAllProjects" /\ last.ok) =>
           \A i \in 1..Len(last.val[1]) :
               SameScenes(loadProject(DB, last.val[1][i].id, TRUE).val[1],
                          last.val[1][i])

\* loadProject returned a scene that POST /api/scenes created, and the entry
\* of loadAllProjects for the project does not list it
C38_Witness ==
    /\ last.op = "loadProject" /\ last.ok /\ last.val # Null
    /\ \E i \in 1..Len(last.val[1].scenes) : last.val[1].scenes[i].name = "Extra"
    /\ \E entry \in EntriesOf(loadAllProjects(DB, TRUE).val[1], last.key) :
           /\ \A i \in 1..Len(entry.scenes) : entry.scenes[i].name # "Extra"
           /\ entry.currentSceneId = last.val[1].currentSceneId


(***************************************************************************)
(* C39. No cache holds an entry whose value is an empty list: every media  *)
(* cache entry is a non-empty media list and every timeline cache entry a  *)
(* non-empty track list, after any sequence of loads, saves (a save of     *)
(* zero tracks included) and deletes.                                      *)
(***************************************************************************)
C39_NoEmptyEntry ==
    /\ \A projectId \in DOMAIN mediaCache : Len(mediaCache[projectId].data) > 0
    /\ \A sceneId \in DOMAIN timelinesCache : Len(timelinesCache[sceneId].data) > 0

\* The half of it that holds: the media cache is only written by
\* loadAllMediaFiles, with a non-empty list
C39_NoEmptyMediaEntry ==
    \A projectId \in DOMAIN mediaCache : Len(mediaCache[projectId].data) > 0

\* saveTimeline of zero tracks returned and the timeline cache holds the
\* empty list for the scene
C39_Witness ==
    /\ last.op = "saveTimeline"
    /\ last.ok
    /\ last.arg = Some(<<>>)
    /\ last.key \in DOMAIN timelinesCache
    /\ timelinesCache[last.key].data = <<>>

====
